---- MODULE Spec2Model ----
(***************************************************************************)
(* Model of browser_use/api/standalone_server.py: the session registry     *)
(* (create_session / get_session / close_session), the agent task         *)
(* registry (run_agent_task / retry_with_browser_use_agent /               *)
(* get_agent_task_status), and the unified dispatcher (mcp_endpoint).      *)
(*                                                                         *)
(* The server is one asyncio event loop: a handler runs without            *)
(* interruption from one `await` on a collaborator to the next.  Each      *)
(* action below is one such uninterrupted stretch of a handler; the        *)
(* suspension points are the pc of the requests in flight.                               *)
(*                                                                         *)
(* Ids (session ids, task ids) are strings in the source.  An id is        *)
(* modelled as <<prefix, n>>, standing for the string prefix + str(n);     *)
(* the literal ids "default" and "s1" are <<"default", 0>> and <<"s", 1>>. *)
(***************************************************************************)
EXTENDS Integers, Sequences, FiniteSets, Bags, TLC

\* ------------------------------------------------------------------ bounds
\* Browser handles (BrowserSession objects) constructed over a run.
MaxHandles == 3
\* Agent objects constructed over a run.
MaxAgents == 2
\* The clock, in milliseconds, runs 0..MaxTime.
MaxTime == 1
\* Requests suspended at an await at the same time.
MaxInFlight == 2
\* Requests served over a run.
MaxRequests == 3
\* Collaborator calls (browser engine, controller, workspace, agent) that raise
\* over a run.
MaxFaults == 1
\* Frames of the page select_dropdown_option scans.
MaxFrames == 3
\* generate_account_credentials calls answered over a run.
MaxAccounts == 2

\* --------------------------------------------------------------------- ids
Default == <<"default", 0>>
\* request.session_id is None
NoId == <<"", 0>>
\* f"session_{int(time.time() * 1000)}"
GeneratedSessionId(t) == <<"session_", t>>
\* f"task_{int(time.time() * 1000)}"
TaskId(t) == <<"task_", t>>
\* f"retry_task_{int(time.time() * 1000)}"
RetryTaskId(t) == <<"retry_task_", t>>
\* Session ids a caller supplies: "default", and a name of its own choosing.
\* The name chosen here, "task_0", is also a string a task id can be.
Named == TaskId(0)
SessionIds == {Default, Named}

VARIABLES
    browser_sessions,  \* server_state.browser_sessions: id -> handle
    ma_keys,           \* the entry table of the dict browser_sessions
    controllers,       \* keys of server_state.controllers
    file_systems,      \* keys of server_state.file_systems
    agents,            \* server_state.agents: key -> agent object
    agent_keys,        \* the entry table of the dict agents
    handles,           \* every BrowserSession object constructed: its id is its index
    agentObjs,         \* every Agent object constructed: its id is its index
    now,               \* int(time.time() * 1000)
    apiKey,            \* os.getenv('OPENAI_API_KEY') is set
    mayFail,           \* the collaborator calls that can raise in this run
    inflight,          \* the handlers suspended at an await, with their locals (a bag)
    ev,                \* the response (or step) the last action produced
    faults,            \* collaborator calls that have raised so far
    accepted,          \* requests accepted so far
    tool_name,         \* dispatcher input: MCPRequest.tool_name
    parameters,        \* dispatcher input: the fields present in MCPRequest.parameters
    routed,            \* dispatcher output: the handler reached, or the error raised
    taskOf,            \* task_id of the background task of each Agent object
    reported,          \* task ids a status poll has answered "completed" or "failed" for
    listing,           \* the list_sessions call in progress: its iterator and its result
    cleanup,           \* ServerState.cleanup in progress: its loop, iterator and object
    frames,            \* select_dropdown_option: page.frames, what each frame holds
    element,           \* select_dropdown_option: the index is in the element map
    scan,              \* select_dropdown_option: the position and trace of the frame loop
    account_storage,   \* server_state.account_storage
    accounts_file,     \* ~/.browser-use-api/accounts.json
    passwords,         \* passwords generate_password has returned so far
    issued,            \* the Generate calls answered so far, in order, as requested
    req,               \* the last credential request served
    resp               \* its response

registryVars == <<browser_sessions, ma_keys, controllers, file_systems>>
taskVars == <<agents, agent_keys, agentObjs, taskOf>>
envVars == <<now, apiKey, mayFail>>
pureVars == <<tool_name, parameters, routed>>
budgetVars == <<faults, accepted>>
selectVars == <<frames, element, scan>>
vaultVars == <<account_storage, accounts_file, passwords, issued, req, resp>>
otherVars == <<listing, cleanup, selectVars, vaultVars>>
vars == <<registryVars, taskVars, handles, envVars, inflight, ev, budgetVars, pureVars,
          reported, otherVars>>

\* ------------------------------------------------------------ exceptions
\* An exception in flight: an HTTPException with a status code, or any other
\* Exception.
Http(code) == [http |-> TRUE, status |-> code]
Plain == [http |-> FALSE, status |-> 0]

\* `except Exception as e: raise HTTPException(status_code=500, ...)`:
\* HTTPException is an Exception, so an HTTPException raised inside the try
\* is caught and replaced as well.
HandlerExcept(exc) == Http(500)

\* An except clause of mcp_endpoint without the isinstance test: whatever is
\* caught becomes a 500.
McpExceptWrapsAll(exc) == Http(500)

\* An mcp_endpoint without its except clause: what is raised leaves as it is.
McpExceptPassesAll(exc) == exc

\* mcp_endpoint: an HTTPException is re-raised as it is, anything else becomes
\* a 500.
McpExcept(exc) == IF exc.http THEN exc ELSE Http(500)

\* The status code the transport answers for an exception that leaves the app:
\* an HTTPException's own, 500 for anything else.
StatusOf(exc) == IF exc.http THEN exc.status ELSE 500

\* ------------------------------------------------------------------ maps
Remove(f, k) == [x \in DOMAIN f \ {k} |-> f[x]]
Put(f, k, v) == [x \in DOMAIN f \cup {k} |-> IF x = k THEN v ELSE f[x]]

\* ------------------------------------------------------------- the dict
\* server_state.browser_sessions is a dict.  CPython keeps the items of a dict
\* in an entry table, in insertion order: the insertion of a new key appends
\* an entry, a deletion leaves a deleted entry in its place, and an insertion
\* that finds no usable entry left rebuilds the table without the deleted
\* entries.  entries: the keys of the table's entries; usable: the number of
\* entries the table can still take.
Deleted == <<"<dummy>", 0>>
\* `self.browser_sessions = {}`: no table is allocated yet.
NoKeys == [entries |-> << >>, usable |-> 0]

\* The table rebuilt: the deleted entries are dropped.  The new table has the
\* smallest size, a power of two from 8, above ((3 * used | 8) - 1) | 7 for a
\* dict of `used` items, and takes two thirds of its size as entries.
Rebuilt(keys) ==
    LET live == SelectSeq(keys.entries, LAMBDA e : e # Deleted)
        RECURSIVE PowerAbove(_, _)
        PowerAbove(size, x) == IF size > x THEN size ELSE PowerAbove(2 * size, x)
        m == 3 * Len(live)
        orEight == IF (m \div 8) % 2 = 0 THEN m + 8 ELSE m
        size == PowerAbove(8, ((orEight - 1) \div 8) * 8 + 7)
    IN [entries |-> live, usable |-> ((2 * size) \div 3) - Len(live)]

\* `del d[k]` for a key of the dict: its entry becomes a deleted entry.
DelItem(keys, k) ==
    [keys EXCEPT !.entries = [i \in DOMAIN keys.entries |->
                                 IF keys.entries[i] = k THEN Deleted ELSE keys.entries[i]]]

\* `d[k] = v`: the value of a key of the dict is replaced in its entry; a new
\* key is appended, to the rebuilt table when no entry is usable.
SetItem(keys, k) ==
    IF \E i \in DOMAIN keys.entries : keys.entries[i] = k
    THEN keys
    ELSE LET t == IF keys.usable <= 0 THEN Rebuilt(keys) ELSE keys
         IN [entries |-> Append(t.entries, k), usable |-> t.usable - 1]

\* One step of the iterator of `d.items()` in a for loop, over the dict with
\* the entry table keys and `used` items as it is now.  The iterator notes the
\* size of the dict when it is created (it.used), counts the items it has
\* yet to yield (it.len, from the size) and the entries of the table it has
\* passed (it.pos, from 0).  It raises RuntimeError when the size of the dict
\* is not the size it noted, or when it finds an item after it has yielded as
\* many as it noted; it stops at the end of the table; else it yields the
\* first item after the entries it has passed.
IterNext(keys, used, it) ==
    LET RECURSIVE NextItem(_)
        NextItem(pos) ==
            IF pos + 1 > Len(keys.entries) \/ keys.entries[pos + 1] # Deleted
            THEN pos + 1
            ELSE NextItem(pos + 1)
        i == NextItem(it.pos)
    IN IF it.used # used THEN [does |-> "raise", key |-> NoId, it |-> it]
       ELSE IF i > Len(keys.entries) THEN [does |-> "stop", key |-> NoId, it |-> it]
       ELSE IF it.len = 0 THEN [does |-> "raise", key |-> NoId, it |-> it]
       ELSE [does |-> "yield", key |-> keys.entries[i],
             it |-> [it EXCEPT !.pos = i, !.len = it.len - 1]]

\* A suspended handler: the tool it serves, its session_id, the await it is at,
\* the objects its locals hold (a browser handle h, an agent a; 0: none), and
\* whether its get_session found the id registered.
Suspended(tool, sid, at, h, a) ==
    [tool |-> tool, sid |-> sid, pc |-> at, h |-> h, a |-> a, found |-> FALSE]
Suspend(r) == inflight' = inflight (+) SetToBag({r})
Resume(r) == inflight' = inflight (-) SetToBag({r})
CanSuspend == BagCardinality(inflight) < MaxInFlight

NoEvent ==
    [tool |-> "", sid |-> NoId, status |-> 0, exc |-> Plain, handle |-> 0,
     key |-> NoId, st |-> "", found |-> FALSE, element |-> TRUE]
\* Nothing is raised: the handler's return value leaves mcp_endpoint and is
\* answered with status 200.
Returned == [http |-> FALSE, status |-> 200]
\* A response: the tool, its session_id, what leaves mcp_endpoint (Returned,
\* or the exception exc, answered with its status code), the browser handle
\* get_session returned (0: none), whether the id was registered at the call.
\* element: FALSE when the handler's get_dom_element_by_index returned None.
Event(tool, sid, leaves, handle, found) ==
    [tool |-> tool, sid |-> sid,
     status |-> IF leaves = Returned THEN 200 ELSE StatusOf(leaves),
     exc |-> IF leaves = Returned THEN Plain ELSE leaves,
     handle |-> handle, key |-> NoId, st |-> "", found |-> found, element |-> TRUE]

\* ------------------------------------------------------------------ Init
\* The dispatcher's output before a dispatch.
NotDispatched == [handler |-> "", status |-> 0, kind |-> ""]

\* The collaborator calls of the session registry, and those of the task
\* orchestrator.
SessionCalls == {"start", "controller", "fs", "stop", "page"}
TaskCalls == {"run", "agent_close"}

\* ServerState.cleanup is not running.
NoCleanup == [pc |-> "idle", it |-> [used |-> 0, len |-> 0, pos |-> 0], cur |-> 0]

\* The server after construction.
Start ==
    /\ browser_sessions = << >>
    /\ ma_keys = NoKeys
    /\ controllers = {}
    /\ file_systems = {}
    /\ agents = << >>
    /\ agent_keys = NoKeys
    /\ cleanup = NoCleanup
    /\ handles = << >>
    /\ agentObjs = << >>
    /\ now = 0
    /\ inflight = EmptyBag
    /\ ev = NoEvent
    /\ faults = 0
    /\ accepted = 0
    /\ taskOf = << >>
    /\ reported = {}

\* No request to POST /mcp is being decoded.
NoDispatch ==
    /\ tool_name = ""
    /\ parameters = {}
    /\ routed = NotDispatched

\* No list_sessions call is in progress.
NoListing ==
    [pc |-> "idle", it |-> [used |-> 0, len |-> 0, pos |-> 0], cur |-> NoId, out |-> << >>]

\* No select_dropdown_option call is in progress.
NoScan == [pc |-> "idle", i |-> 0, probed |-> << >>, acted |-> << >>, result |-> ""]
NoSelect ==
    /\ frames = << >>
    /\ element = TRUE
    /\ scan = NoScan

\* No accounts.json on disk.
NoFile == [exists |-> FALSE, valid |-> FALSE, data |-> << >>]

\* No credential request has been served.
NoRequest == [tool |-> "", sid |-> NoId, website |-> << >>, email |-> ""]
NoResponse == [status |-> 0, website |-> << >>, email |-> "", password |-> 0]

\* `self.account_storage = {}`, no accounts.json, no password generated.
EmptyVault ==
    /\ account_storage = << >>
    /\ accounts_file = NoFile
    /\ passwords = 0
    /\ issued = << >>
    /\ req = NoRequest
    /\ resp = NoResponse

\* The parts of the server a specification leaves at rest.
AtRest ==
    /\ listing = NoListing
    /\ NoSelect
    /\ EmptyVault

\* The session registry, with collaborators that can fail.  No agent is
\* submitted, so the API key is not read.
Init ==
    /\ Start
    /\ NoDispatch
    /\ AtRest
    /\ apiKey = TRUE
    /\ mayFail = SessionCalls

\* The task orchestrator, with agents that can fail, on sessions whose
\* browser engine does not.
InitTasks ==
    /\ Start
    /\ NoDispatch
    /\ AtRest
    /\ apiKey \in BOOLEAN
    /\ mayFail = TaskCalls

\* A collaborator call may raise while the run's budget of faults lasts.
MayRaise(call) == call \in mayFail /\ faults < MaxFaults
Fault(raised) == faults' = IF raised THEN faults + 1 ELSE faults
\* A request arrives.
Accept == accepted < MaxRequests /\ accepted' = accepted + 1

\* time.time() advances.
Tick ==
    /\ now < MaxTime
    /\ now' = now + 1
    /\ ev' = NoEvent
    /\ UNCHANGED <<registryVars, taskVars, handles, apiKey, mayFail, inflight, budgetVars,
                   pureVars, reported, otherVars>>

\* -------------------------------------------------------- create_session
\* `session_id = request.session_id or f"session_{...}"`
SessionIdOf(sid) == IF sid = NoId THEN GeneratedSessionId(now) ELSE sid

\* `if session_id in server_state.browser_sessions`
Registered(sid) == sid \in DOMAIN browser_sessions

\* `session = BrowserSession(browser_profile=profile)`: a new object, for sid.
\* created: the create_session that made it has returned successfully and no
\* close_session of sid has since.
NewHandle(sid) == [sid |-> sid, st |-> "new", created |-> FALSE]

\* What the code after `await session.start()` registers, by how far it gets:
\* "start" (start raised), "controller" (Controller() raised), "fs"
\* (FileSystem() raised), "ok".
CreateOutcomes == {"ok", "start", "controller", "fs"}
RegisterSessions(out, sid, h) ==
    IF out = "start" THEN browser_sessions ELSE Put(browser_sessions, sid, h)
RegisterControllers(out, sid) ==
    IF out \in {"start", "controller"} THEN controllers ELSE controllers \cup {sid}
RegisterFileSystems(out, sid) ==
    IF out = "ok" THEN file_systems \cup {sid} ELSE file_systems

\* A browser engine that starts one browser per id at a time: the start of a
\* second one, for an id registered meanwhile, leaves it unusable.
StartHandleOncePerId(out, sid, h) ==
    [handles EXCEPT ![h] =
        [sid |-> sid, st |-> IF out = "start" \/ Registered(sid) THEN "failed" ELSE "live",
         created |-> out = "ok"]]

\* The handle after `await session.start()`, and after create_session returned.
StartHandle(out, sid, h) ==
    [handles EXCEPT ![h] =
        [sid |-> sid, st |-> IF out = "start" THEN "failed" ELSE "live",
         created |-> out = "ok"]]

\* The writes of create_session from the return of `await session.start()`
\* to its end, for the outcome out.
CreateEffects(out, sid, h) ==
    /\ handles' = StartHandle(out, sid, h)
    /\ browser_sessions' = RegisterSessions(out, sid, h)
    /\ ma_keys' = IF out = "start" THEN ma_keys ELSE SetItem(ma_keys, sid)
    /\ controllers' = RegisterControllers(out, sid)
    /\ file_systems' = RegisterFileSystems(out, sid)

\* create_session up to `await session.start()`.
CreateBegin(sidIn) ==
    LET sid == SessionIdOf(sidIn) IN
    /\ Accept
    /\ IF Registered(sid)
         THEN /\ ev' = Event("create_browser_session", sid,
                             McpExcept(HandlerExcept(Http(400))), 0, TRUE)
              /\ UNCHANGED <<handles, inflight>>
         ELSE /\ Len(handles) < MaxHandles
              /\ CanSuspend
              /\ handles' = Append(handles, NewHandle(sid))
              /\ Suspend(Suspended("create_browser_session", sid, "start",
                                   Len(handles) + 1, 0))
              /\ ev' = NoEvent
    /\ UNCHANGED <<registryVars, taskVars, envVars, faults, pureVars, reported, otherVars>>

\* create_session from the return of `await session.start()` to its end.
CreateResume(r) ==
    /\ r.tool = "create_browser_session"
    /\ r.pc = "start"
    /\ \E out \in CreateOutcomes :
        /\ out # "ok" => MayRaise(out)
        /\ Fault(out # "ok")
        /\ CreateEffects(out, r.sid, r.h)
        /\ ev' = Event(r.tool, r.sid,
                       IF out = "ok" THEN Returned
                       ELSE McpExcept(HandlerExcept(Plain)), r.h, FALSE)
    /\ Resume(r)
    /\ UNCHANGED <<accepted, taskVars, envVars, pureVars, reported, otherVars>>

\* ----------------------------------------------------------- get_session
\* A get_session that creates nothing: every id that is not registered is not
\* found, "default" too.
GetSessionMissNeverCreates(sid) == "notfound"

\* get_session for an id that is not registered: "default" is created, any
\* other id is not found.
GetSessionMiss(sid) == IF sid = Default THEN "create" ELSE "notfound"

\* `return server_state.browser_sessions[session_id]`
GetSessionHit(sid) == browser_sessions[sid]

\* The tools whose handler starts with `session = await get_session(...)`
\* inside its try block.
WrappedPageTools ==
    {"browser_navigate", "browser_click", "browser_type", "browser_key",
     "browser_scroll", "browser_get_state", "browser_extract_content",
     "browser_go_back", "browser_list_tabs", "browser_switch_tab",
     "browser_close_tab"}
\* select_dropdown_option calls get_session outside any try block.
PageTools == WrappedPageTools \cup {"select_dropdown_option"}

\* What leaves the handler of `tool` (and then mcp_endpoint) when exc is raised
\* in it.
ToolExcept(tool, exc) ==
    IF tool = "select_dropdown_option"
    THEN McpExcept(exc)
    ELSE McpExcept(HandlerExcept(exc))

\* The page tools this specification exercises, one of each kind: the other
\* ten wrap get_session in the same try/except as browser_navigate does.
ExercisedPageTools == {"browser_navigate", "select_dropdown_option"}

\* The handler of a page tool at its first await of the browser engine
\* (`await session.navigate_to(...)`, `await browser_session.get_current_page()`
\* and the like), holding the handle h that get_session returned.
AtPage(tool, sid, h, found) ==
    [Suspended(tool, sid, "page", h, 0) EXCEPT !.found = found]

\* A page tool whose input passes the handler's tests (for
\* browser_extract_content: the API key is set), up to its first await: on a
\* registered session the engine call on the handle get_session returned, on
\* "default" the `await session.start()` of the create_session that
\* get_session calls.  browser_extract_content answers at once for a session
\* registered without its controller or its file system.
PageBegin(tool, sid) ==
    /\ Accept
    /\ tool \in PageTools
    /\ tool = "browser_extract_content" => apiKey
    /\ IF Registered(sid)
         THEN /\ IF /\ tool = "browser_extract_content"
                    /\ (sid \notin controllers \/ sid \notin file_systems)
                   THEN /\ ev' = Event(tool, sid, ToolExcept(tool, Http(500)),
                                       GetSessionHit(sid), TRUE)
                        /\ UNCHANGED inflight
                   ELSE /\ CanSuspend
                        /\ Suspend(AtPage(tool, sid, GetSessionHit(sid), TRUE))
                        /\ ev' = NoEvent
              /\ UNCHANGED handles
         ELSE IF GetSessionMiss(sid) = "create"
         THEN /\ Len(handles) < MaxHandles
              /\ CanSuspend
              /\ handles' = Append(handles, NewHandle(sid))
              /\ Suspend(Suspended(tool, sid, "start", Len(handles) + 1, 0))
              /\ ev' = NoEvent
         ELSE /\ ev' = Event(tool, sid, ToolExcept(tool, Http(404)), 0, FALSE)
              /\ UNCHANGED <<handles, inflight>>
    /\ UNCHANGED <<registryVars, taskVars, envVars, faults, pureVars, reported, otherVars>>

\* A page tool on "default" from the return of `await session.start()` to its
\* next await: create_session ends, get_session returns the handle just
\* registered, and the tool calls the engine on it; when create_session
\* raises, the handler answers.
PageResume(r) ==
    /\ r.tool \in PageTools
    /\ r.pc = "start"
    /\ \E out \in CreateOutcomes :
        /\ out # "ok" => MayRaise(out)
        /\ Fault(out # "ok")
        /\ CreateEffects(out, r.sid, r.h)
        /\ IF out = "ok"
             THEN /\ inflight' = (inflight (-) SetToBag({r}))
                                    (+) SetToBag({AtPage(r.tool, r.sid, r.h, FALSE)})
                  /\ ev' = NoEvent
             ELSE /\ Resume(r)
                  /\ ev' = Event(r.tool, r.sid,
                                 ToolExcept(r.tool, HandlerExcept(Plain)),
                                 0, FALSE)
    /\ UNCHANGED <<accepted, taskVars, envVars, pureVars, reported, otherVars>>

\* The tools that look an element up by its index, and what they raise when
\* `get_dom_element_by_index` returns None: select_dropdown_option a plain
\* Exception, browser_click and browser_type HTTPException(404).
NoElement(tool) == IF tool = "select_dropdown_option" THEN Plain ELSE Http(404)

\* How the engine calls of a page tool end: they return ("ok"), one of them
\* raises ("raised"), the element looked up is None ("no_element").
PageResults(tool) ==
    {"ok", "raised"} \cup (IF tool \in {"browser_click", "browser_type", "select_dropdown_option"}
            THEN {"no_element"} ELSE {})

\* A page tool from the return of its engine calls to its end: the handler
\* answers for the handle it holds, registered still or not.
PageReturn(r) ==
    /\ r.tool \in PageTools
    /\ r.pc = "page"
    /\ \E result \in PageResults(r.tool) :
        /\ result = "raised" => MayRaise("page")
        /\ Fault(result = "raised")
        /\ ev' = [Event(r.tool, r.sid,
                        CASE result = "ok" -> Returned
                          [] result = "raised" -> ToolExcept(r.tool, Plain)
                          [] result = "no_element" -> ToolExcept(r.tool, NoElement(r.tool)),
                        r.h, r.found)
                  EXCEPT !.element = result # "no_element"]
    /\ Resume(r)
    /\ UNCHANGED <<accepted, registryVars, taskVars, handles, envVars, pureVars,
                   reported, otherVars>>

\* The tools that test their input, or the API key, after get_session.
InputTools ==
    {"browser_scroll", "browser_switch_tab", "browser_close_tab",
     "browser_extract_content"}

\* `len(session.tabs)` of a session nobody opened a tab on.
NumTabs == 1

\* request.direction, request.tab_index; browser_extract_content has no
\* input that it tests.
Inputs(tool) ==
    CASE tool = "browser_scroll" -> {"up", "down", "left"}
      [] tool \in {"browser_switch_tab", "browser_close_tab"} -> {0 - 1, 0, NumTabs}
      [] OTHER -> {""}

\* The handler's test raises HTTPException(400): `direction not in ["up",
\* "down"]`, `tab_index < 0 or tab_index >= len(session.tabs)`, `not api_key`.
InputRejected(tool, input) ==
    CASE tool = "browser_scroll" -> input \notin {"up", "down"}
      [] tool \in {"browser_switch_tab", "browser_close_tab"} -> input < 0 \/ input >= NumTabs
      [] OTHER -> ~apiKey

\* browser_scroll calls `await session.get_current_page()` between
\* get_session and its test; the other three test right after get_session.
TestsAfterPage(tool) == tool = "browser_scroll"

\* A request of an input-testing tool whose test will raise, up to its first
\* await or, without one, its end: get_session comes first (on "default" the
\* `await session.start()` of the create_session it calls), the test after it.
RejectBegin(tool, sid, input) ==
    /\ Accept
    /\ tool \in InputTools
    /\ InputRejected(tool, input)
    /\ IF Registered(sid)
         THEN /\ IF TestsAfterPage(tool)
                   THEN /\ CanSuspend
                        /\ Suspend(AtPage(tool, sid, GetSessionHit(sid), TRUE))
                        /\ ev' = NoEvent
                   ELSE /\ ev' = Event(tool, sid, ToolExcept(tool, Http(400)),
                                       GetSessionHit(sid), TRUE)
                        /\ UNCHANGED inflight
              /\ UNCHANGED handles
         ELSE IF GetSessionMiss(sid) = "create"
         THEN /\ Len(handles) < MaxHandles
              /\ CanSuspend
              /\ handles' = Append(handles, NewHandle(sid))
              /\ Suspend(Suspended(tool, sid, "start", Len(handles) + 1, 0))
              /\ ev' = NoEvent
         ELSE /\ ev' = Event(tool, sid, ToolExcept(tool, Http(404)), 0, FALSE)
              /\ UNCHANGED <<handles, inflight>>
    /\ UNCHANGED <<registryVars, taskVars, envVars, faults, pureVars, reported, otherVars>>

\* Such a request on "default" from the return of `await session.start()`:
\* create_session ends, get_session returns, and the handler's test raises,
\* for browser_scroll after its `await session.get_current_page()`.
RejectResume(r) ==
    /\ r.tool \in InputTools
    /\ r.pc = "start"
    /\ \E out \in CreateOutcomes :
        /\ out # "ok" => MayRaise(out)
        /\ Fault(out # "ok")
        /\ CreateEffects(out, r.sid, r.h)
        /\ IF out = "ok" /\ TestsAfterPage(r.tool)
             THEN /\ inflight' = (inflight (-) SetToBag({r}))
                                    (+) SetToBag({AtPage(r.tool, r.sid, r.h, FALSE)})
                  /\ ev' = NoEvent
             ELSE /\ Resume(r)
                  /\ ev' = Event(r.tool, r.sid,
                                 IF out # "ok"
                                 THEN ToolExcept(r.tool, HandlerExcept(Plain))
                                 ELSE ToolExcept(r.tool, Http(400)),
                                 IF out = "ok" THEN r.h ELSE 0,
                                 FALSE)
    /\ UNCHANGED <<accepted, taskVars, envVars, pureVars, reported, otherVars>>

\* browser_scroll from the return of `await session.get_current_page()`: the
\* test of the direction raises.
RejectReturn(r) ==
    /\ r.tool \in InputTools
    /\ TestsAfterPage(r.tool)
    /\ r.pc = "page"
    /\ ev' = Event(r.tool, r.sid, ToolExcept(r.tool, Http(400)), r.h, r.found)
    /\ Resume(r)
    /\ UNCHANGED <<accepted, registryVars, taskVars, handles, envVars, faults, pureVars,
                   reported, otherVars>>

\* --------------------------------------------------------- close_session
\* `if session_id in server_state.agents`
HasAgent(sid) == sid \in DOMAIN agents

\* `await agent.close()` was called on agent object a (it returned or raised).
CloseAgent(objs, a) == [objs EXCEPT ![a].closes = @ + 1]

\* close_session up to its first await: `agents[session_id].close()` when the
\* id is a key of agents, `session.stop()` otherwise.
CloseBegin(sid) ==
    /\ Accept
    /\ IF ~Registered(sid)
         THEN /\ ev' = Event("close_browser_session", sid,
                             McpExcept(HandlerExcept(Http(404))), 0, FALSE)
              /\ UNCHANGED inflight
         ELSE /\ CanSuspend
              /\ ev' = NoEvent
              /\ IF HasAgent(sid)
                   THEN Suspend(Suspended("close_browser_session", sid, "agent_close",
                                          0, agents[sid]))
                   ELSE Suspend(Suspended("close_browser_session", sid, "stop",
                                          browser_sessions[sid], 0))
    /\ UNCHANGED <<registryVars, taskVars, handles, envVars, faults, pureVars, reported, otherVars>>

\* close_session from the return of `await agents[session_id].close()` to
\* `await session.stop()`.  The two subscripts raise KeyError when another
\* request removed the key meanwhile.
CloseAgentResume(r) ==
    /\ r.tool = "close_browser_session"
    /\ r.pc = "agent_close"
    /\ \E raised \in BOOLEAN :
        /\ raised => MayRaise("agent_close")
        /\ Fault(raised)
        /\ agentObjs' = CloseAgent(agentObjs, r.a)
        /\ IF raised \/ ~HasAgent(r.sid) \/ ~Registered(r.sid)
             THEN /\ ev' = Event(r.tool, r.sid,
                                 McpExcept(HandlerExcept(Plain)), 0, TRUE)
                  /\ agents' = IF raised THEN agents ELSE Remove(agents, r.sid)
                  /\ agent_keys' = IF raised THEN agent_keys ELSE DelItem(agent_keys, r.sid)
                  /\ Resume(r)
             ELSE /\ ev' = NoEvent
                  /\ agents' = Remove(agents, r.sid)
                  /\ agent_keys' = DelItem(agent_keys, r.sid)
                  /\ inflight' = (inflight (-) SetToBag({r})) (+)
                        SetToBag({Suspended(r.tool, r.sid, "stop",
                                            browser_sessions[r.sid], 0)})
    /\ UNCHANGED <<accepted, registryVars, handles, envVars, pureVars, reported, taskOf, otherVars>>

\* `await session.stop()` returned: the handle is stopped; a successful close
\* of sid ends what the creates of sid established.
StopHandle(sid, h) ==
    [x \in DOMAIN handles |->
        IF x = h THEN [handles[x] EXCEPT !.st = "stopped", !.created = FALSE]
        ELSE IF handles[x].sid = sid /\ Registered(sid)
        THEN [handles[x] EXCEPT !.created = FALSE]
        ELSE handles[x]]

\* close_session from the return of `await session.stop()` to its end.
\* `del server_state.browser_sessions[session_id]` raises KeyError when another
\* close removed the id meanwhile.
CloseStopResume(r) ==
    /\ r.tool = "close_browser_session"
    /\ r.pc = "stop"
    /\ \E raised \in BOOLEAN :
        /\ raised => MayRaise("stop")
        /\ Fault(raised)
        /\ IF raised
             THEN /\ ev' = Event(r.tool, r.sid,
                                 McpExcept(HandlerExcept(Plain)), r.h, TRUE)
                  /\ UNCHANGED <<registryVars, handles>>
             ELSE /\ handles' = StopHandle(r.sid, r.h)
                  /\ IF Registered(r.sid)
                       THEN /\ browser_sessions' = Remove(browser_sessions, r.sid)
                            /\ ma_keys' = DelItem(ma_keys, r.sid)
                            /\ controllers' = controllers \ {r.sid}
                            /\ file_systems' = file_systems \ {r.sid}
                            /\ ev' = Event(r.tool, r.sid, Returned, r.h, TRUE)
                       ELSE /\ ev' = Event(r.tool, r.sid,
                                           McpExcept(HandlerExcept(Plain)),
                                           r.h, TRUE)
                            /\ UNCHANGED registryVars
    /\ Resume(r)
    /\ UNCHANGED <<accepted, taskVars, envVars, pureVars, reported, otherVars>>

\* ---------------------------------------------------------- list_sessions
\* The entry list_sessions appends for a session: with url and title, or,
\* when a page query raised, with the error.
ListEntry(sid, raised) == [session_id |-> sid, error |-> raised]

\* `sessions.append({...})` in the try block or in the except clause.
Listed(out, sid, raised) == Append(out, ListEntry(sid, raised))

\* The session ids in a listing.
ListedIds(out) == {out[i].session_id : i \in DOMAIN out}

\* list_sessions up to its first await: the dict iterator is created over
\* browser_sessions and yields its first item, whose page is queried.  The
\* listing of an empty registry is answered at once.
ListBegin ==
    /\ Accept
    /\ listing.pc # "page"
    /\ LET used == Cardinality(DOMAIN browser_sessions)
           n == IterNext(ma_keys, used, [used |-> used, len |-> used, pos |-> 0])
       IN IF n.does = "yield"
            THEN /\ listing' = [pc |-> "page", it |-> n.it, cur |-> n.key, out |-> << >>]
                 /\ ev' = NoEvent
            ELSE /\ listing' = [pc |-> "done", it |-> n.it, cur |-> NoId, out |-> << >>]
                 /\ ev' = Event("list_browser_sessions", NoId, Returned, 0, TRUE)
    /\ UNCHANGED <<registryVars, taskVars, handles, envVars, inflight, faults, pureVars,
                   reported, cleanup, selectVars, vaultVars>>

\* list_sessions from the return (or the exception) of the page queries of
\* one session to the next await or the response.  The entry is appended;
\* then the dict iterator is advanced, over the dict as it is now: nothing in
\* list_sessions catches the RuntimeError it may raise.
ListStep ==
    /\ listing.pc = "page"
    /\ \E raised \in BOOLEAN :
        LET out1 == Listed(listing.out, listing.cur, raised)
            n == IterNext(ma_keys, Cardinality(DOMAIN browser_sessions), listing.it)
        IN /\ raised => MayRaise("page")
           /\ Fault(raised)
           /\ CASE n.does = "raise" ->
                     /\ listing' = [listing EXCEPT !.pc = "failed", !.out = out1]
                     /\ ev' = Event("list_browser_sessions", NoId,
                                    McpExcept(Plain), 0, TRUE)
                [] n.does = "stop" ->
                     /\ listing' = [listing EXCEPT !.pc = "done", !.out = out1]
                     /\ ev' = Event("list_browser_sessions", NoId, Returned, 0, TRUE)
                [] n.does = "yield" ->
                     /\ listing' = [listing EXCEPT !.it = n.it, !.cur = n.key,
                                                   !.out = out1]
                     /\ ev' = NoEvent
    /\ UNCHANGED <<accepted, registryVars, taskVars, handles, envVars, inflight, pureVars,
                   reported, cleanup, selectVars, vaultVars>>

\* ------------------------------------------------- select_dropdown_option
\* What a frame holds for the element's xpath, and how the frame answers:
\*   absent        the probe returns null (no such node in the frame)
\*   unsupported   the probe returns {found: false, error}
\*   probe_error   `frame.evaluate(element_info_js, ...)` raises
\*   select_ok     a native select, `select_option(label=text)` returns
\*   select_fail   a native select, `select_option(label=text)` raises
\*   aria_ok       an ARIA menu, the click script returns {success: true}
\*   aria_nomatch  an ARIA menu, the click script returns {success: false}
\*   aria_error    an ARIA menu, `frame.evaluate(click_aria_item_js, ...)` raises
FrameKinds ==
    {"absent", "unsupported", "probe_error", "select_ok", "select_fail",
     "aria_ok", "aria_nomatch", "aria_error"}

\* The frames a page can have.
FrameLists == UNION {[1..n -> FrameKinds] : n \in 0..MaxFrames}

\* `for frame in reversed(page.frames)`.
FrameOrderReversed(n, k) == n + 1 - k

\* `for frame in page.frames`: the k-th frame visited, of n.
FrameOrder(n, k) == k

\* `element_info and element_info.get('found')` with type select or aria: the
\* frame is acted on; in every other case the loop goes to the next frame.
Found(kind) == kind \in {"select_ok", "select_fail", "aria_ok", "aria_nomatch", "aria_error"}

\* select_option returned, or the click script reported success.
ActSucceeds(kind) == kind \in {"select_ok", "aria_ok"}

\* An inner except clause that re-raises: the outer except clause ends the
\* scan with 'Selection failed'.
FrameFailureAborts(kind) ==
    IF kind \in {"probe_error", "select_fail", "aria_error"} THEN "abort" ELSE "next"

\* What the loop does with a frame that did not yield a selection: the inner
\* except clause logs, `continue` and the fall-through go to the next frame.
FrameFailure(kind) == "next"

\* A scan that raises when no frame yielded a selection.
ExhaustedRaises == "raised"

\* After the last frame: `return {'message': "Could not select option ..."}`.
Exhausted == "none"

\* What leaves mcp_endpoint for a result of the call.
SelectStatus(result) ==
    IF result = "raised"
    THEN ToolExcept("select_dropdown_option", Plain)
    ELSE Returned

\* The scan ends with result.
ScanEnds(result, probed, acted) ==
    /\ scan' = [scan EXCEPT !.pc = "done", !.result = result, !.probed = probed,
                            !.acted = acted]
    /\ ev' = [Event("select_dropdown_option", Default, SelectStatus(result),
                    GetSessionHit(Default), TRUE)
              EXCEPT !.element = result # "raised"]

\* The loop leaves the k-th frame visited without a selection.
ScanGoesOn(kind, probed) ==
    IF FrameFailure(kind) = "abort" THEN ScanEnds("failed", probed, scan.acted)
    ELSE IF scan.i < Len(frames)
    THEN /\ scan' = [scan EXCEPT !.pc = "probe", !.i = scan.i + 1, !.probed = probed]
         /\ ev' = NoEvent
    ELSE ScanEnds(Exhausted, probed, scan.acted)

\* select_dropdown_option from `get_dom_element_by_index` to the first probe:
\* the plain Exception when the element is None, the loop otherwise.
SelectBegin ==
    /\ scan.pc = "idle"
    /\ IF ~element THEN ScanEnds("raised", << >>, << >>)
       ELSE IF frames = << >> THEN ScanEnds(Exhausted, << >>, << >>)
       ELSE /\ scan' = [scan EXCEPT !.pc = "probe", !.i = 1]
            /\ ev' = NoEvent
    /\ UNCHANGED <<registryVars, taskVars, handles, envVars, inflight, budgetVars, pureVars,
                   reported, listing, cleanup, frames, element, vaultVars>>

\* `await frame.evaluate(element_info_js, ...)` returned or raised for the
\* frame being visited.
ProbeReturns ==
    /\ scan.pc = "probe"
    /\ LET f == FrameOrder(Len(frames), scan.i)
           probed == Append(scan.probed, f)
       IN IF Found(frames[f])
          THEN /\ scan' = [scan EXCEPT !.pc = "act", !.probed = probed]
               /\ ev' = NoEvent
          ELSE ScanGoesOn(frames[f], probed)
    /\ UNCHANGED <<registryVars, taskVars, handles, envVars, inflight, budgetVars, pureVars,
                   reported, listing, cleanup, frames, element, vaultVars>>

\* `await ...select_option(label=text, timeout=1000)` or `await
\* frame.evaluate(click_aria_item_js, ...)` returned or raised.
ActReturns ==
    /\ scan.pc = "act"
    /\ LET f == FrameOrder(Len(frames), scan.i)
       IN IF ActSucceeds(frames[f])
          THEN ScanEnds("selected", scan.probed, Append(scan.acted, f))
          ELSE ScanGoesOn(frames[f], scan.probed)
    /\ UNCHANGED <<registryVars, taskVars, handles, envVars, inflight, budgetVars, pureVars,
                   reported, listing, cleanup, frames, element, vaultVars>>

\* A select_dropdown_option call on "default", created before, whose page
\* has some frames.
InitSelect ==
    /\ browser_sessions = (Default :> 1)
    /\ ma_keys = SetItem(NoKeys, Default)
    /\ controllers = {Default}
    /\ file_systems = {Default}
    /\ handles = <<[sid |-> Default, st |-> "live", created |-> TRUE]>>
    /\ agents = << >>
    /\ agent_keys = NoKeys
    /\ cleanup = NoCleanup
    /\ agentObjs = << >>
    /\ now = 0
    /\ inflight = EmptyBag
    /\ ev = NoEvent
    /\ faults = 0
    /\ accepted = 0
    /\ taskOf = << >>
    /\ reported = {}
    /\ NoDispatch
    /\ apiKey = TRUE
    /\ mayFail = {}
    /\ listing = NoListing
    /\ EmptyVault
    /\ frames \in FrameLists
    /\ element \in BOOLEAN
    /\ scan = NoScan

NextSelect == SelectBegin \/ ProbeReturns \/ ActReturns

SpecSelect == InitSelect /\ [][NextSelect]_vars

\* ------------------------------------------------------ credential vault
\* Strings the vault takes apart are sequences of one-character strings.
Https == <<"h", "t", "t", "p", "s", ":", "/", "/">>
HttpScheme == <<"h", "t", "t", "p", ":", "/", "/">>
Www == <<"w", "w", "w", ".">>

\* request.website: "https://www.a.b/p", "a.b", "http://a.b", "a.www.b", "c.d".
FullUrl == Https \o Www \o <<"a", ".", "b", "/", "p">>
BareHost == <<"a", ".", "b">>
Websites ==
    {FullUrl, BareHost,
     HttpScheme \o <<"a", ".", "b">>,
     <<"a", ".">> \o Www \o <<"b">>,
     <<"c", ".", "d">>}

\* request.email
Emails == {"a@b.com", "c@d.com"}

\* The credential requests made: every website for the default session and
\* the first email, two spellings of one site for another session or email.
CredentialRequests ==
    {t \in SessionIds \X Websites \X Emails :
        \/ t[1] = Default /\ t[3] = "a@b.com"
        \/ t[2] \in {FullUrl, BareHost} /\ (t[1] = Default \/ t[3] = "a@b.com")}

\* s.startswith(old)
StartsWith(s, old) == Len(s) >= Len(old) /\ SubSeq(s, 1, Len(old)) = old

\* s.replace(old, ''): every occurrence, left to right, without overlap.
RECURSIVE Replace(_, _)
Replace(s, old) ==
    IF s = << >> THEN << >>
    ELSE IF StartsWith(s, old) THEN Replace(SubSeq(s, Len(old) + 1, Len(s)), old)
    ELSE <<Head(s)>> \o Replace(Tail(s), old)

\* s.split('/')[0]
RECURSIVE SplitFirst(_)
SplitFirst(s) ==
    IF s = << >> \/ Head(s) = "/" THEN << >>
    ELSE <<Head(s)>> \o SplitFirst(Tail(s))

\* `request.website.replace('https://', '').replace('http://', '')
\*  .replace('www.', '').split('/')[0]`
Normalize(w) == SplitFirst(Replace(Replace(Replace(w, Https), HttpScheme), Www))

\* The key of a record in account_storage[session_id][website][email].
AccountKey(sid, w, email) == <<sid, Normalize(w), email>>

\* A store_account that keeps the record a triple already has.
StoreKeepsFirst(storage, key, password) == storage @@ (key :> password)

\* store_account's assignment `account_storage[session_id][website][email] = {...}`.
Store(storage, key, password) == (key :> password) @@ storage

\* accounts.json after `json.dump(self.account_storage, f)` returned.
Saved(storage) == [exists |-> TRUE, valid |-> TRUE, data |-> storage]

\* accounts.json after open(..., 'w') truncated it and the write raised.
Truncated == [exists |-> TRUE, valid |-> FALSE, data |-> << >>]

\* How _save_accounts_to_file can go: it returns, mkdir or open raises, or
\* the write raises; the except clause logs either failure and returns.
SaveFaults == {"none", "open", "write"}

\* accounts.json after _save_accounts_to_file.
SaveAccounts(file, storage, fault) ==
    CASE fault = "none" -> Saved(storage)
      [] fault = "open" -> file
      [] fault = "write" -> Truncated

\* account_storage after _load_accounts_from_file on a fresh ServerState: the
\* file's content, {} when there is no file or json.load raises.
LoadAccounts(file) == IF file.exists /\ file.valid THEN file.data ELSE << >>

\* A retrieve handler whose except clause wraps every exception.
RetrieveExceptWrapsAll(exc) == Http(500)

\* retrieve_account_credentials' except clause: an HTTPException is raised
\* again as it is, anything else becomes a 500.
RetrieveExcept(exc) == IF exc.http THEN exc ELSE Http(500)

\* generate_password: sixteen characters drawn with secrets.choice from an
\* alphabet of seventy; the draw is a value no earlier draw returned.
GeneratePassword == passwords + 1

\* generate_account_credentials, whole: normalize, generate, store_account
\* (assignment and save), response.  The handler awaits nothing.
Generate(sid, w, email, fault) ==
    /\ Len(issued) < MaxAccounts
    /\ fault # "none" => "save" \in mayFail /\ faults < MaxFaults
    /\ LET password == GeneratePassword
           storage == Store(account_storage, AccountKey(sid, w, email), password)
       IN /\ account_storage' = storage
          /\ accounts_file' = SaveAccounts(accounts_file, storage, fault)
          /\ passwords' = password
          /\ issued' = Append(issued, [sid |-> sid, website |-> w, email |-> email,
                                       password |-> password])
          /\ resp' = [status |-> 200, website |-> Normalize(w), email |-> email,
                      password |-> password]
    /\ req' = [tool |-> "generate_account_credentials", sid |-> sid, website |-> w,
               email |-> email]
    /\ faults' = IF fault = "none" THEN faults ELSE faults + 1
    /\ ev' = Event("generate_account_credentials", sid, Returned, 0, sid \in DOMAIN browser_sessions)
    /\ UNCHANGED <<registryVars, taskVars, handles, envVars, inflight, accepted, pureVars,
                   reported, listing, cleanup, selectVars>>

\* get_account's None.
NoAccount == 0

\* A get_account that looks only into the records of registered sessions.
GetAccountOfLiveSession(storage, key) ==
    IF key[1] \in DOMAIN browser_sessions /\ key \in DOMAIN storage
    THEN storage[key] ELSE NoAccount

\* get_account: `account_storage.get(session_id, {}).get(website, {}).get(email)`.
GetAccount(storage, key) == IF key \in DOMAIN storage THEN storage[key] ELSE NoAccount

\* retrieve_account_credentials, whole: normalize, get_account, the 404 when
\* there is no record, the response otherwise.
Retrieve(sid, w, email) ==
    /\ LET credentials == GetAccount(account_storage, AccountKey(sid, w, email))
       IN resp' = IF credentials # NoAccount
                  THEN [status |-> 200, website |-> Normalize(w), email |-> email,
                        password |-> credentials]
                  ELSE [status |-> StatusOf(McpExcept(RetrieveExcept(Http(404)))),
                        website |-> Normalize(w), email |-> email, password |-> 0]
    /\ req' = [tool |-> "retrieve_account_credentials", sid |-> sid, website |-> w,
               email |-> email]
    /\ ev' = Event("retrieve_account_credentials", sid,
                   IF GetAccount(account_storage, AccountKey(sid, w, email)) # NoAccount
                   THEN Returned ELSE McpExcept(RetrieveExcept(Http(404))),
                   0, sid \in DOMAIN browser_sessions)
    /\ UNCHANGED <<registryVars, taskVars, handles, envVars, inflight, budgetVars, pureVars,
                   reported, listing, cleanup, selectVars,
                   account_storage, accounts_file, passwords, issued>>

\* A load without its except clause: json.load's error ends the startup.
StartupRaisesOnCorrupt(file) == file.exists /\ ~file.valid

\* Whether _load_accounts_from_file lets an exception out to lifespan: its
\* try block spans the whole body and the except clause only logs.
StartupRaises(file) == FALSE

\* The process ends and the next one starts, with the agent objects objs and
\* the browser handles hs as the shutdown left them: the handlers and the
\* background tasks under way end with the process, the new process starts
\* from `server_state = ServerState()`, with empty registries, and
\* lifespan's startup loads accounts.json.
Restart(objs, hs) ==
    /\ agentObjs' = [a \in DOMAIN objs |->
                       [objs[a] EXCEPT !.phase = IF @ = "done" THEN @ ELSE "killed"]]
    /\ handles' = [h \in DOMAIN hs |-> [hs[h] EXCEPT !.created = FALSE]]
    /\ browser_sessions' = << >>
    /\ ma_keys' = NoKeys
    /\ controllers' = {}
    /\ file_systems' = {}
    /\ agents' = << >>
    /\ agent_keys' = NoKeys
    /\ inflight' = EmptyBag
    /\ listing' = IF listing.pc = "page" THEN NoListing ELSE listing
    /\ scan' = IF scan.pc \in {"probe", "act"} THEN NoScan ELSE scan
    /\ cleanup' = NoCleanup
    /\ account_storage' = LoadAccounts(accounts_file)
    /\ req' = [NoRequest EXCEPT !.tool = IF StartupRaises(accounts_file)
                                         THEN "startup_failed" ELSE "restart"]
    /\ resp' = NoResponse

\* cleanup at the head of its second loop, `for session_id, session in
\* self.browser_sessions.items()`: it awaits stop() on the first session; with
\* no session registered cleanup returns and the process ends.
StopSessions(objs, hs) ==
    LET used == Cardinality(DOMAIN browser_sessions)
        n == IterNext(ma_keys, used, [used |-> used, len |-> used, pos |-> 0])
    IN IF n.does = "yield"
       THEN /\ cleanup' = [pc |-> "stop", it |-> n.it, cur |-> browser_sessions[n.key]]
            /\ agentObjs' = objs
            /\ handles' = hs
            /\ UNCHANGED <<registryVars, agents, agent_keys, inflight, listing, selectVars,
                           account_storage, req, resp>>
       ELSE /\ Restart(objs, hs)
            /\ UNCHANGED <<frames, element>>

\* lifespan's shutdown up to the first await of ServerState.cleanup, `await
\* agent.close()` on the first agent of `self.agents.items()`; with no agent
\* stored cleanup goes on to its second loop.
CleanupBegin ==
    /\ cleanup.pc = "idle"
    /\ LET used == Cardinality(DOMAIN agents)
           n == IterNext(agent_keys, used, [used |-> used, len |-> used, pos |-> 0])
       IN IF n.does = "yield"
          THEN /\ cleanup' = [pc |-> "agent_close", it |-> n.it, cur |-> agents[n.key]]
               /\ UNCHANGED <<registryVars, taskVars, handles, inflight, listing,
                              selectVars, account_storage, req, resp>>
          ELSE /\ StopSessions(agentObjs, handles)
               /\ UNCHANGED taskOf
    /\ ev' = NoEvent
    /\ UNCHANGED <<envVars, budgetVars, pureVars, reported, accounts_file, passwords,
                   issued>>

\* cleanup from the return (or the exception, which is logged) of `await
\* agent.close()` to its next await or its end: the loop over the agents is
\* advanced, over the dict as it is now; nothing in cleanup catches the
\* RuntimeError the iterator may raise, which ends cleanup and the shutdown.
CleanupAgentClosed ==
    /\ cleanup.pc = "agent_close"
    /\ \E raised \in BOOLEAN :
        LET objs == CloseAgent(agentObjs, cleanup.cur)
            n == IterNext(agent_keys, Cardinality(DOMAIN agents), cleanup.it)
        IN /\ raised => MayRaise("agent_close")
           /\ Fault(raised)
           /\ CASE n.does = "yield" ->
                     /\ cleanup' = [cleanup EXCEPT !.it = n.it, !.cur = agents[n.key]]
                     /\ agentObjs' = objs
                     /\ UNCHANGED <<registryVars, agents, agent_keys, handles, inflight,
                                    listing, selectVars, account_storage, req, resp>>
                [] n.does = "stop" -> StopSessions(objs, handles)
                [] n.does = "raise" -> Restart(objs, handles) /\ UNCHANGED <<frames, element>>
    /\ ev' = NoEvent
    /\ UNCHANGED <<taskOf, envVars, accepted, pureVars, reported, accounts_file, passwords,
                   issued>>

\* cleanup from the return (or the exception, which is logged) of `await
\* session.stop()` to its next await or its end, and then the end of the
\* process and the start of the next.
CleanupStopped ==
    /\ cleanup.pc = "stop"
    /\ \E raised \in BOOLEAN :
        LET hs == IF raised THEN handles
                  ELSE [handles EXCEPT ![cleanup.cur].st = "stopped"]
            n == IterNext(ma_keys, Cardinality(DOMAIN browser_sessions), cleanup.it)
        IN /\ raised => MayRaise("stop")
           /\ Fault(raised)
           /\ IF n.does = "yield"
                THEN /\ cleanup' = [cleanup EXCEPT !.it = n.it,
                                                   !.cur = browser_sessions[n.key]]
                     /\ handles' = hs
                     /\ UNCHANGED <<registryVars, taskVars, inflight, listing, selectVars,
                                    account_storage, req, resp>>
                ELSE /\ Restart(agentObjs, hs)
                     /\ UNCHANGED <<taskOf, frames, element>>
    /\ ev' = NoEvent
    /\ UNCHANGED <<envVars, accepted, pureVars, reported, accounts_file, passwords, issued>>

\* A server with no session, an empty vault and no accounts.json, whose
\* saves may (failing) or may not raise.
InitVault(failing) ==
    /\ Start
    /\ NoDispatch
    /\ apiKey = TRUE
    /\ mayFail = failing
    /\ listing = NoListing
    /\ NoSelect
    /\ EmptyVault

\* Credential requests on a disk that takes every write.
NextVault ==
    \/ \E t \in CredentialRequests : Generate(t[1], t[2], t[3], "none")
    \/ \E t \in CredentialRequests : Retrieve(t[1], t[2], t[3])

SpecVault == InitVault({}) /\ [][NextVault]_vars

\* Credential requests for one site and email under each session id, among
\* creates and closes of the named session, on an engine that does not fail.
NextIndependent ==
    \/ CreateBegin(Named)
    \/ \E r \in BagToSet(inflight) : CreateResume(r)
    \/ CloseBegin(Named)
    \/ \E r \in BagToSet(inflight) : CloseStopResume(r)
    \/ \E sid \in SessionIds : Generate(sid, BareHost, "a@b.com", "none")
    \/ \E sid \in SessionIds : Retrieve(sid, BareHost, "a@b.com")

SpecIndependent == InitTasks /\ [][NextIndependent]_vars

\* request.website "wwww.ww.a.b", whose normalized form "www.a.b" (also a
\* request.website) holds a "www." again.
StackedWebsites ==
    {<<"w", "w", "w", "w", ".", "w", "w", ".">> \o BareHost, Www \o BareHost}

\* Credential requests of the default session for one email, for every
\* website.
NextNormalize ==
    \/ \E w \in Websites \cup StackedWebsites : Generate(Default, w, "a@b.com", "none")
    \/ \E w \in Websites \cup StackedWebsites : Retrieve(Default, w, "a@b.com")

SpecNormalize == InitVault({}) /\ [][NextNormalize]_vars

\* A server with an empty vault and no accounts.json, whose saves and whose
\* stops may raise: one that has served nothing, or one on which "default"
\* was created and a task submitted on it has run to its end.
InitDurable ==
    /\ \E served \in BOOLEAN :
          IF served
          THEN /\ browser_sessions = (Default :> 1)
               /\ ma_keys = SetItem(NoKeys, Default)
               /\ controllers = {Default}
               /\ file_systems = {Default}
               /\ handles = <<[sid |-> Default, st |-> "live", created |-> TRUE]>>
               /\ agents = (TaskId(0) :> 1)
               /\ agent_keys = SetItem(NoKeys, TaskId(0))
               /\ agentObjs = <<[kind |-> "session", sid |-> Default, h |-> 1,
                                  phase |-> "done", result |-> "returned",
                                  running |-> FALSE, closes |-> 0]>>
               /\ taskOf = <<TaskId(0)>>
          ELSE /\ browser_sessions = << >>
               /\ ma_keys = NoKeys
               /\ controllers = {}
               /\ file_systems = {}
               /\ handles = << >>
               /\ agents = << >>
               /\ agent_keys = NoKeys
               /\ agentObjs = << >>
               /\ taskOf = << >>
    /\ cleanup = NoCleanup
    /\ now = 0
    /\ inflight = EmptyBag
    /\ ev = NoEvent
    /\ faults = 0
    /\ accepted = 0
    /\ reported = {}
    /\ NoDispatch
    /\ AtRest
    /\ apiKey = TRUE
    /\ mayFail = {"save", "stop", "agent_close"}

\* Credential requests for one site, spelled in two ways, under each session
\* id, and restarts, on a disk that can refuse a write.
NextDurable ==
    \/ \E sid \in SessionIds, w \in {FullUrl, BareHost}, fault \in SaveFaults :
          Generate(sid, w, "a@b.com", fault)
    \/ \E sid \in SessionIds, w \in {FullUrl, BareHost} : Retrieve(sid, w, "a@b.com")
    \/ CleanupBegin
    \/ CleanupAgentClosed
    \/ CleanupStopped

SpecDurable == InitDurable /\ [][NextDurable]_vars

\* ------------------------------------------------------------ agent tasks
\* An agent whose run is awaited inside the request handler: it is already
\* running when the handler goes on.
NewAgentRunsInline(kind, sid, h) ==
    [kind |-> kind, sid |-> sid, h |-> h, phase |-> "running", result |-> "",
     running |-> FALSE, closes |-> 0]

\* `Agent(task=..., llm=llm, browser_session=session)` (kind "session", bound
\* to handle h) or `Agent(task=..., llm=llm, browser_profile=profile)` (kind
\* "adhoc", h = 0): a new object whose run is not started.  sid is the
\* request's session_id; running is the agent's `running` attribute (FALSE
\* also when the object has no such attribute); closes counts close() calls.
NewAgent(kind, sid, h) ==
    [kind |-> kind, sid |-> sid, h |-> h, phase |-> "queued", result |-> "",
     running |-> FALSE, closes |-> 0]

\* `is_running = hasattr(agent, 'running') and getattr(agent, 'running', False)`
IsRunning(a) == agentObjs[a].running

\* `"status": "running" if is_running else "completed"`
StatusField(a) == IF IsRunning(a) THEN "running" ELSE "completed"

\* run_agent_task / retry_with_browser_use_agent from the API key check to the
\* response: the agent is stored under the task id and its run is scheduled.
Submit(tool, kind, taskId, sid, h, found) ==
    IF ~apiKey
    THEN /\ ev' = Event(tool, sid, McpExcept(HandlerExcept(Http(400))), h, found)
         /\ UNCHANGED taskVars
    ELSE /\ Len(agentObjs) < MaxAgents
         /\ agentObjs' = Append(agentObjs, NewAgent(kind, sid, h))
         /\ agents' = Put(agents, taskId, Len(agentObjs) + 1)
         /\ agent_keys' = SetItem(agent_keys, taskId)
         /\ taskOf' = Append(taskOf, taskId)
         /\ ev' = [Event(tool, sid, Returned, h, found) EXCEPT !.key = taskId, !.st = "started"]

\* browse_agent on a registered session, or on "default" up to the
\* `await session.start()` of the create_session that get_session calls.
AgentBegin(sid) ==
    /\ Accept
    /\ IF Registered(sid)
         THEN /\ Submit("browse_agent", "session", TaskId(now), sid,
                        GetSessionHit(sid), TRUE)
              /\ UNCHANGED <<handles, inflight>>
         ELSE IF GetSessionMiss(sid) = "create"
         THEN /\ Len(handles) < MaxHandles
              /\ CanSuspend
              /\ handles' = Append(handles, NewHandle(sid))
              /\ Suspend(Suspended("browse_agent", sid, "start", Len(handles) + 1, 0))
              /\ ev' = NoEvent
              /\ UNCHANGED taskVars
         ELSE /\ ev' = Event("browse_agent", sid,
                             McpExcept(HandlerExcept(Http(404))), 0, FALSE)
              /\ UNCHANGED <<handles, inflight, taskVars>>
    /\ UNCHANGED <<registryVars, envVars, faults, pureVars, reported, otherVars>>

\* browse_agent on "default" from the return of `await session.start()`.
AgentResume(r) ==
    /\ r.tool = "browse_agent"
    /\ r.pc = "start"
    /\ \E out \in CreateOutcomes :
        /\ out # "ok" => MayRaise(out)
        /\ Fault(out # "ok")
        /\ CreateEffects(out, r.sid, r.h)
        /\ IF out = "ok"
             THEN Submit(r.tool, "session", TaskId(now), r.sid,
                         RegisterSessions(out, r.sid, r.h)[r.sid], FALSE)
             ELSE /\ ev' = Event(r.tool, r.sid,
                                 McpExcept(HandlerExcept(HandlerExcept(Plain))),
                                 0, FALSE)
                  /\ UNCHANGED taskVars
    /\ Resume(r)
    /\ UNCHANGED <<accepted, envVars, pureVars, reported, otherVars>>

\* A retry agent built on the browser of the request's session.
RetryHandleOfSession(sid) == IF Registered(sid) THEN browser_sessions[sid] ELSE 0

\* The browser a retry agent is built on: `Agent(task=..., llm=llm,
\* browser_profile=profile, use_vision=...)` names no browser_session, the
\* agent launches one of its own (0: no handle of the registry).
RetryHandle(sid) == 0

\* The browser handles after `await agent.close()` of an agent built on h:
\* the close ends the agent's browser.
AgentBrowserStopped(h) ==
    IF h = 0 THEN handles ELSE [handles EXCEPT ![h].st = "stopped"]

\* retry_browse_agent: no get_session, an agent with a browser of its own.
RetryBegin(sid) ==
    /\ Accept
    /\ Submit("retry_browse_agent", "adhoc", RetryTaskId(now), sid, RetryHandle(sid),
              Registered(sid))
    /\ UNCHANGED <<registryVars, handles, envVars, inflight, faults, pureVars, reported, otherVars>>

\* The background task of a submitted agent starts: `await agent.run(...)`.
\* Whether the Agent class keeps a `running` attribute is the library's.
RunStart(a) ==
    /\ agentObjs[a].phase = "queued"
    /\ \E tracked \in BOOLEAN :
        agentObjs' = [agentObjs EXCEPT ![a].phase = "running", ![a].running = tracked]
    /\ ev' = NoEvent
    /\ UNCHANGED <<registryVars, agents, agent_keys, taskOf, handles, envVars, inflight, budgetVars, pureVars, reported, otherVars>>

\* `agent.run` returns or raises.  run_agent ends there; run_retry_agent goes
\* on to `await agent.close()` in its finally block.
RunEnd(a) ==
    /\ agentObjs[a].phase = "running"
    /\ \E raised \in BOOLEAN :
        /\ raised => MayRaise("run")
        /\ Fault(raised)
        /\ agentObjs' = [agentObjs EXCEPT
              ![a].phase = IF agentObjs[a].kind = "adhoc" THEN "closing" ELSE "done",
              ![a].result = IF raised THEN "raised" ELSE "returned",
              ![a].running = FALSE]
    /\ ev' = NoEvent
    /\ UNCHANGED <<accepted, registryVars, agents, agent_keys, taskOf, handles, envVars, inflight, pureVars, reported, otherVars>>

\* run_retry_agent's finally block: `await agent.close()`, its exception
\* logged and dropped.
RetryClose(a) ==
    /\ agentObjs[a].phase = "closing"
    /\ \E raised \in BOOLEAN :
        /\ raised => MayRaise("agent_close")
        /\ Fault(raised)
        /\ agentObjs' = [CloseAgent(agentObjs, a) EXCEPT ![a].phase = "done"]
    /\ handles' = AgentBrowserStopped(agentObjs[a].h)
    /\ ev' = NoEvent
    /\ UNCHANGED <<accepted, registryVars, agents, agent_keys, taskOf, envVars, inflight, pureVars, reported, otherVars>>

\* The statuses of a task that has ended.
TerminalStatuses == {"completed", "failed"}

\* The task ids a caller may poll.
TaskIds == {TaskId(t) : t \in 0..MaxTime} \cup {RetryTaskId(t) : t \in 0..MaxTime}

\* A get_agent_task_status that takes the agent out of the registry as it
\* reads it (`agents.pop(task_id)`).
GetStatusForgets(taskId) ==
    /\ taskId \in TaskIds
    /\ Accept
    /\ IF taskId \notin DOMAIN agents
         THEN /\ ev' = [Event("get_agent_task_status", NoId,
                              McpExcept(Http(404)), 0, FALSE)
                        EXCEPT !.key = taskId]
              /\ UNCHANGED <<agents, agent_keys>>
         ELSE /\ ev' = [Event("get_agent_task_status", NoId, Returned, 0, TRUE)
                        EXCEPT !.key = taskId, !.st = StatusField(agents[taskId])]
              /\ agents' = Remove(agents, taskId)
              /\ agent_keys' = DelItem(agent_keys, taskId)
    /\ reported' = IF ev'.st \in TerminalStatuses THEN reported \cup {taskId} ELSE reported
    /\ UNCHANGED <<registryVars, agentObjs, taskOf, handles, envVars, inflight, faults,
                   pureVars, otherVars>>

\* get_agent_task_status.
GetStatus(taskId) ==
    /\ taskId \in TaskIds
    /\ Accept
    /\ IF taskId \notin DOMAIN agents
         THEN ev' = [Event("get_agent_task_status", NoId,
                           McpExcept(Http(404)), 0, FALSE)
                     EXCEPT !.key = taskId]
         ELSE ev' = [Event("get_agent_task_status", NoId, Returned, 0, TRUE)
                     EXCEPT !.key = taskId, !.st = StatusField(agents[taskId])]
    /\ reported' = IF ev'.st \in TerminalStatuses THEN reported \cup {taskId} ELSE reported
    /\ UNCHANGED <<registryVars, taskVars, handles, envVars, inflight, faults, pureVars,
                   otherVars>>


\* ------------------------------------------------------------ mcp_endpoint
\* The if/elif chain of mcp_endpoint: the handler a tool name is routed to,
\* "" when the chain falls through to `raise HTTPException(400, "Unknown tool")`.
Route(tool) ==
    CASE tool = "create_browser_session" -> "create_session"
      [] tool = "list_browser_sessions" -> "list_sessions"
      [] tool = "close_browser_session" -> "close_session"
      [] tool = "browser_navigate" -> "browser_navigate"
      [] tool = "browser_click" -> "browser_click"
      [] tool = "browser_type" -> "browser_type"
      [] tool = "browser_key" -> "browser_key"
      [] tool = "browser_scroll" -> "browser_scroll"
      [] tool = "browser_get_state" -> "get_browser_state"
      [] tool = "browser_extract_content" -> "browser_extract_content"
      [] tool = "browser_go_back" -> "browser_go_back"
      [] tool = "browser_list_tabs" -> "browser_list_tabs"
      [] tool = "browser_switch_tab" -> "browser_switch_tab"
      [] tool = "browser_close_tab" -> "browser_close_tab"
      [] tool = "browse_agent" -> "run_agent_task"
      [] tool = "retry_browse_agent" -> "retry_with_browser_use_agent"
      [] tool = "get_agent_task_status" -> "get_agent_task_status"
      [] tool = "select_dropdown_option" -> "select_dropdown_option"
      [] tool = "generate_account_credentials" -> "generate_account_credentials"
      [] tool = "retrieve_account_credentials" -> "retrieve_account_credentials"
      [] OTHER -> ""

\* "available_tools" of mcp_get_endpoint (GET /mcp).
AvailableTools ==
    {"create_browser_session", "list_browser_sessions", "close_browser_session",
     "browser_navigate", "browser_click", "browser_type", "browser_key",
     "browser_scroll", "browser_get_state", "browser_extract_content",
     "browser_go_back", "browser_list_tabs", "browser_switch_tab",
     "browser_close_tab", "run_agent_task", "retry_with_browser_use_agent",
     "get_agent_task_status", "generate_account_credentials",
     "retrieve_account_credentials"}

\* The fields without a default (`Field(...)`, or no Field at all) of the
\* request model a tool's parameters are decoded into.
RequiredFields(tool) ==
    CASE tool = "close_browser_session" -> {"session_id"}
      [] tool = "browser_navigate" -> {"url"}
      [] tool = "browser_click" -> {"index"}
      [] tool = "browser_type" -> {"index", "text"}
      [] tool = "browser_key" -> {"key"}
      [] tool = "browser_extract_content" -> {"query"}
      [] tool \in {"browser_switch_tab", "browser_close_tab"} -> {"tab_index"}
      [] tool \in {"browse_agent", "retry_browse_agent"} -> {"task"}
      [] tool = "select_dropdown_option" -> {"session_id", "index", "text"}
      [] tool \in {"generate_account_credentials", "retrieve_account_credentials"} ->
            {"website", "email"}
      [] OTHER -> {}

\* mcp_endpoint up to the call of the handler: the handler reached, or the
\* exception that leaves the endpoint.  A request model rejects parameters
\* that lack a required field with a ValidationError, which is no
\* HTTPException; get_agent_task_status reads task_id itself.
DispatchResult(tool, params) ==
    IF Route(tool) = ""
    THEN [handler |-> "", status |-> StatusOf(McpExcept(Http(400))), kind |-> "UnknownTool"]
    ELSE IF tool = "get_agent_task_status"
    THEN IF "task_id" \in params
         THEN [handler |-> Route(tool), status |-> 0, kind |-> ""]
         ELSE [handler |-> "", status |-> StatusOf(McpExcept(Http(400))),
               kind |-> "InvalidParameters"]
    ELSE IF RequiredFields(tool) \subseteq params
    THEN [handler |-> Route(tool), status |-> 0, kind |-> ""]
    ELSE [handler |-> "", status |-> StatusOf(McpExcept(Plain)),
          kind |-> "InvalidParameters"]

\* The tool names a caller may send: those routed, those listed, and one that
\* is neither.
RoutedTools ==
    {"create_browser_session", "list_browser_sessions", "close_browser_session",
     "browser_navigate", "browser_click", "browser_type", "browser_key",
     "browser_scroll", "browser_get_state", "browser_extract_content",
     "browser_go_back", "browser_list_tabs", "browser_switch_tab",
     "browser_close_tab", "browse_agent", "retry_browse_agent",
     "get_agent_task_status", "select_dropdown_option",
     "generate_account_credentials", "retrieve_account_credentials"}
ToolNames == RoutedTools \cup AvailableTools \cup {"no_such_tool"}

\* The parameter objects a caller may send for a tool: its required fields
\* (task_id for get_agent_task_status) less any of them, with or without a
\* field the request model does not declare.
ParameterSets(tool) ==
    LET wanted == IF tool = "get_agent_task_status" THEN {"task_id"}
                  ELSE RequiredFields(tool)
    IN {(wanted \ dropped) \cup extra :
            dropped \in SUBSET wanted, extra \in {{}, {"unknown_field"}}}

\* A request to POST /mcp is about to be served.
InitDispatch ==
    /\ Start
    /\ AtRest
    /\ apiKey = TRUE
    /\ mayFail = {}
    /\ tool_name \in ToolNames
    /\ parameters \in ParameterSets(tool_name)
    /\ routed = NotDispatched

\* mcp_endpoint decodes and routes the request.
Dispatch ==
    /\ routed = NotDispatched
    /\ routed' = DispatchResult(tool_name, parameters)
    /\ UNCHANGED <<registryVars, taskVars, handles, envVars, inflight, ev, budgetVars,
                   tool_name, parameters, reported, otherVars>>

NextDispatch == Dispatch

SpecDispatch == InitDispatch /\ [][NextDispatch]_vars

\* Listings next to requests that create and close sessions.
\* The registry a listing finds at its arrival.  fresh: nothing was
\* registered before.  pair: "default" and another session were created.
\* aged: as pair, after three sessions were created and closed before, whose
\* BrowserSession objects are gone: their deleted entries fill the table.
InitList ==
    /\ \E a \in
          LET pair(keys) ==
                [sessions |-> (Default :> 1) @@ (Named :> 2),
                 handles |-> <<[sid |-> Default, st |-> "live", created |-> TRUE],
                               [sid |-> Named, st |-> "live", created |-> TRUE]>>,
                 keys |-> keys]
          IN {[sessions |-> << >>, handles |-> << >>, keys |-> NoKeys],
              pair(SetItem(SetItem(NoKeys, Default), Named)),
              pair([entries |-> <<Deleted, Deleted, Deleted, Default, Named>>, usable |-> 0])} :
          /\ browser_sessions = a.sessions
          /\ ma_keys = a.keys
          /\ controllers = DOMAIN a.sessions
          /\ file_systems = DOMAIN a.sessions
          /\ handles = a.handles
    /\ agents = << >>
    /\ agent_keys = NoKeys
    /\ cleanup = NoCleanup
    /\ agentObjs = << >>
    /\ now = 0
    /\ inflight = EmptyBag
    /\ ev = NoEvent
    /\ faults = 0
    /\ accepted = 0
    /\ taskOf = << >>
    /\ reported = {}
    /\ NoDispatch
    /\ AtRest
    /\ apiKey = TRUE
    /\ mayFail = SessionCalls

NextList ==
    \/ \E sid \in SessionIds \cup {NoId} : CreateBegin(sid)
    \/ \E r \in BagToSet(inflight) : CreateResume(r)
    \/ \E sid \in SessionIds : CloseBegin(sid)
    \/ \E r \in BagToSet(inflight) : CloseStopResume(r)
    \/ ListBegin
    \/ ListStep

SpecList == InitList /\ [][NextList]_vars

\* mcp_endpoint for a tool name that no branch of the if/elif chain matches:
\* the else branch raises, no handler runs.
DispatchUnknown(tool) ==
    /\ Route(tool) = ""
    /\ Accept
    /\ ev' = Event(tool, NoId, McpExcept(Http(400)), 0, FALSE)
    /\ UNCHANGED <<registryVars, taskVars, handles, envVars, inflight, faults, pureVars,
                   reported, otherVars>>

\* ------------------------------------------------------- specifications
Next ==
    \/ Tick
    \/ \E sid \in SessionIds \cup {NoId} : CreateBegin(sid)
    \/ \E r \in BagToSet(inflight) : CreateResume(r)
    \/ \E tool \in ExercisedPageTools, sid \in SessionIds : PageBegin(tool, sid)
    \/ \E r \in BagToSet(inflight) : PageResume(r)
    \/ \E r \in BagToSet(inflight) : PageReturn(r)
    \/ \E sid \in SessionIds : CloseBegin(sid)
    \/ \E r \in BagToSet(inflight) : CloseStopResume(r)

Spec == Init /\ [][Next]_vars

\* Page tools, browser_click for those that answer a missing element with
\* an HTTPException and browser_extract_content, next to creates and closes of "default", within one
\* clock millisecond.
NextPages ==
    \/ CreateBegin(Default)
    \/ \E r \in BagToSet(inflight) : CreateResume(r)
    \/ \E tool \in ExercisedPageTools \cup {"browser_click", "browser_extract_content"},
          sid \in SessionIds :
          PageBegin(tool, sid)
    \/ \E r \in BagToSet(inflight) : PageResume(r)
    \/ \E r \in BagToSet(inflight) : PageReturn(r)
    \/ CloseBegin(Default)
    \/ \E r \in BagToSet(inflight) : CloseStopResume(r)

SpecPages == Init /\ [][NextPages]_vars

NextTasks ==
    \/ Tick
    \/ \E sid \in SessionIds : CreateBegin(sid)
    \/ \E r \in BagToSet(inflight) : CreateResume(r)
    \/ \E sid \in SessionIds : CloseBegin(sid)
    \/ \E r \in BagToSet(inflight) : CloseAgentResume(r)
    \/ \E r \in BagToSet(inflight) : CloseStopResume(r)
    \/ \E sid \in SessionIds : AgentBegin(sid)
    \/ \E r \in BagToSet(inflight) : AgentResume(r)
    \/ \E sid \in SessionIds : RetryBegin(sid)
    \/ \E a \in DOMAIN agentObjs : RunStart(a)
    \/ \E a \in DOMAIN agentObjs : RunEnd(a)
    \/ \E a \in DOMAIN agentObjs : RetryClose(a)
    \/ \E taskId \in TaskIds : GetStatus(taskId)
    \/ \E tool \in ToolNames \ RoutedTools : DispatchUnknown(tool)

SpecTasks == InitTasks /\ [][NextTasks]_vars

\* The event loop runs every background task that is ready: a scheduled run
\* starts, `agent.run` returns or raises within its step budget, and the
\* finally block of run_retry_agent is executed.
BackgroundFairness ==
    \A a \in 1..MaxAgents :
        /\ WF_vars(a \in DOMAIN agentObjs /\ RunStart(a))
        /\ WF_vars(a \in DOMAIN agentObjs /\ RunEnd(a))
        /\ WF_vars(a \in DOMAIN agentObjs /\ RetryClose(a))

SpecTasksFair == SpecTasks /\ BackgroundFairness

\* A session id a caller chose that is also the string of a retry task id.
RetryNamed == RetryTaskId(0)

\* Retry tasks next to a session named RetryNamed.
NextRetry ==
    \/ Tick
    \/ CreateBegin(RetryNamed)
    \/ \E r \in BagToSet(inflight) : CreateResume(r)
    \/ CloseBegin(RetryNamed)
    \/ \E r \in BagToSet(inflight) : CloseAgentResume(r)
    \/ \E r \in BagToSet(inflight) : CloseStopResume(r)
    \/ \E sid \in {Default, RetryNamed} : RetryBegin(sid)
    \/ \E a \in DOMAIN agentObjs : RunStart(a)
    \/ \E a \in DOMAIN agentObjs : RunEnd(a)
    \/ \E a \in DOMAIN agentObjs : RetryClose(a)
    \/ \E taskId \in TaskIds : GetStatus(taskId)

SpecRetry == InitTasks /\ [][NextRetry]_vars

\* Submitting, running and polling tasks, with no request that closes a
\* session.
NextSubmit ==
    \/ Tick
    \/ \E sid \in SessionIds : AgentBegin(sid)
    \/ \E r \in BagToSet(inflight) : AgentResume(r)
    \/ \E sid \in SessionIds : RetryBegin(sid)
    \/ \E a \in DOMAIN agentObjs : RunStart(a)
    \/ \E a \in DOMAIN agentObjs : RunEnd(a)
    \/ \E a \in DOMAIN agentObjs : RetryClose(a)
    \/ \E taskId \in TaskIds : GetStatus(taskId)
    \/ \E tool \in ToolNames \ RoutedTools : DispatchUnknown(tool)

SpecSubmit == InitTasks /\ [][NextSubmit]_vars

\* Requests whose input, or the missing API key, will be rejected, next to
\* creates of the named session.
NextReject ==
    \/ CreateBegin(Named)
    \/ \E r \in BagToSet(inflight) : CreateResume(r)
    \/ \E tool \in InputTools, sid \in SessionIds :
          \E input \in Inputs(tool) : RejectBegin(tool, sid, input)
    \/ \E r \in BagToSet(inflight) : RejectResume(r)
    \/ \E r \in BagToSet(inflight) : RejectReturn(r)
    \/ \E sid \in SessionIds : AgentBegin(sid)
    \/ \E r \in BagToSet(inflight) : AgentResume(r)

SpecReject == InitTasks /\ [][NextReject]_vars

\* ================================================================ claims
\* Some create_session of sid has returned successfully and no close_session
\* of sid has since; the handles those creates registered.
CreatedHandles(sid) ==
    {h \in DOMAIN handles : handles[h].sid = sid /\ handles[h].created}

\* Some close_session of sid has returned successfully: it stopped a handle.
WasClosed(sid) ==
    \E h \in DOMAIN handles : handles[h].sid = sid /\ handles[h].st = "stopped"

\* The handlers that are newly suspended after the step, and whether the step
\* resumes the suspended request r.
NewlySuspended ==
    {r \in BagToSet(inflight') : CopiesIn(r, inflight') > CopiesIn(r, inflight)}
ResumedInStep(r) == CopiesIn(r, inflight') < CopiesIn(r, inflight)

\* The step is a whole request: it was accepted and answered without an await.
AnsweredAtOnce == accepted' = accepted + 1 /\ inflight' = inflight /\ ev'.status # 0

\* C1: in every reachable state, every browser handle that was started for an
\* id and not stopped is the handle registered under that id.
C1_StartedHandleIsRegistered ==
    \A h \in DOMAIN handles :
        handles[h].st = "live" =>
            /\ Registered(handles[h].sid)
            /\ browser_sessions[handles[h].sid] = h

\* C2: a Create(x) issued once a Create(x) has succeeded, and before any
\* Close(x), fails with status 400 (AlreadyExists), starts no handle and
\* leaves browser_sessions, controllers and file_systems unchanged.
C2_SecondCreateAlreadyExists ==
    [][(/\ AnsweredAtOnce
        /\ ev'.tool = "create_browser_session"
        /\ CreatedHandles(ev'.sid) # {})
       => (/\ ev'.status = 400
           /\ handles' = handles
           /\ registryVars' = registryVars)]_vars

\* C3: after Create(x) succeeded and while x is not closed, a get_session(x)
\* made by a page tool returns the handle that Create registered (the tool
\* goes on to the engine with it), starts no handle and leaves the registry
\* unchanged.
C3_GetSessionReturnsCreated ==
    [][\A r \in NewlySuspended :
         (/\ accepted' = accepted + 1
          /\ r.tool \in PageTools
          /\ r.pc = "page"
          /\ CreatedHandles(r.sid) # {})
            => (/\ \A h \in CreatedHandles(r.sid) : r.h = h
                /\ handles' = handles
                /\ registryVars' = registryVars)]_vars

\* C4: in every reachable state browser_sessions, controllers and file_systems
\* have the same keys.
C4_RegistriesShareKeys ==
    /\ DOMAIN browser_sessions = controllers
    /\ controllers = file_systems

\* C5: a Close(id) of an id that was registered when it was called answers
\* success, whatever the teardown steps did, and leaves id in none of
\* browser_sessions, controllers and file_systems.
C5_CloseIsTotal ==
    (ev.tool = "close_browser_session" /\ ev.found)
        => /\ ev.status = 200
           /\ ev.sid \notin DOMAIN browser_sessions
           /\ ev.sid \notin controllers
           /\ ev.sid \notin file_systems

\* C6: after Close(x) succeeded, a page tool called with session_id x other
\* than "default" answers 404 (NotFound) and creates no session; a Close of an
\* id that is not registered answers 404 and changes no map.
C6_ClosedIsNotFound ==
    [][(/\ AnsweredAtOnce
        /\ ~Registered(ev'.sid)
        /\ \/ ev'.tool = "close_browser_session"
           \/ ev'.tool \in PageTools /\ ev'.sid # Default /\ WasClosed(ev'.sid))
       => (/\ ev'.status = 404
           /\ handles' = handles
           /\ registryVars' = registryVars)]_vars

SubmittedWith(sid) ==
    {a \in DOMAIN agentObjs : agentObjs[a].kind = "session" /\ agentObjs[a].sid = sid}

\* C8: after a Close(s) that succeeded, no agent task submitted by
\* browse_agent with session_id s is left in agents, and close() was called
\* on each such agent.
C8_ClosePurgesBoundTask ==
    (ev.tool = "close_browser_session" /\ ev.status = 200)
        => \A a \in SubmittedWith(ev.sid) :
              /\ \A k \in DOMAIN agents : agents[k] # a
              /\ agentObjs[a].closes > 0

\* C9: a tool name is in the listing of GET /mcp exactly when Dispatch routes
\* it to a handler (does not fail with UnknownTool).
C9_ListingEqualsRoutable ==
    routed # NotDispatched =>
        (tool_name \in AvailableTools <=> routed.kind # "UnknownTool")

\* C10: a GetStatus of a task whose background run has not started yet
\* reports status "running".
C10_StatusRunningBeforeRun ==
    (/\ ev.tool = "get_agent_task_status"
     /\ ev.status = 200
     /\ agentObjs[agents[ev.key]].phase = "queued")
        => ev.st = "running"

\* C11: once a GetStatus of a task id has reported completed or failed, no
\* later GetStatus of that task id reports running.
C11_StatusNeverRevertsToRunning ==
    (/\ ev.tool = "get_agent_task_status"
     /\ ev.status = 200
     /\ ev.key \in reported)
        => ev.st # "running"

\* C12: a Submit that succeeds returns a task id no earlier Submit returned,
\* and overwrites no entry of the task registry.
C12_TaskIdsAreUnique ==
    [][(ev'.st = "started" /\ ev'.status = 200 /\ Len(taskOf') = Len(taskOf) + 1)
          => /\ ev'.key \notin DOMAIN agents
             /\ \A a \in DOMAIN taskOf : taskOf[a] # ev'.key]_vars

\* C13: a GetStatus of a task whose agent run has raised and ended reports
\* status "failed".
C13_RaisedRunReportsFailed ==
    (/\ ev.tool = "get_agent_task_status"
     /\ ev.status = 200
     /\ agentObjs[agents[ev.key]].result = "raised")
        => ev.st = "failed"

\* The run of agent object a has ended: `agent.run` returned or raised.
RunEnded(a) == a \in DOMAIN agentObjs /\ agentObjs[a].phase \in {"closing", "done"}

\* C14: every submitted task eventually finishes executing, and from then on
\* a GetStatus of its task id reports completed or failed.
C14_TaskEndsAndStaysTerminal ==
    /\ [](\A a \in 1..MaxAgents :
            (RunEnded(a) /\ ev.tool = "get_agent_task_status" /\ ev.key = taskOf[a])
                => (ev.status = 200 /\ ev.st \in TerminalStatuses))
    /\ \A a \in 1..MaxAgents : (a \in DOMAIN agentObjs) ~> RunEnded(a)

\* C15: the ad-hoc agent of a retry task has close() called exactly once, and
\* only after its run has ended, whether the run returned or raised; once its
\* background task is over it has been closed.
C15_AdhocAgentClosedOnce ==
    \A a \in DOMAIN agentObjs :
        agentObjs[a].kind = "adhoc" =>
            /\ agentObjs[a].phase \in {"queued", "running", "closing"}
                  => agentObjs[a].closes = 0
            /\ agentObjs[a].phase = "done" => agentObjs[a].closes = 1

\* C16: a Submit that succeeds has registered the task and produced its
\* response before the run's first step (the agent is still queued and no
\* run advanced in that step), and a GetStatus can be answered in every
\* state in which a request can still arrive, whatever the runs are doing.
C16_SubmitDoesNotWaitForRun ==
    /\ [][(ev'.st = "started" /\ ev'.status = 200)
            => /\ ev'.key \in DOMAIN agents'
               /\ agents'[ev'.key] = Len(agentObjs')
               /\ agentObjs'[agents'[ev'.key]].phase = "queued"
               /\ \A a \in DOMAIN agentObjs : agentObjs'[a] = agentObjs[a]]_vars
    /\ [](accepted < MaxRequests => \A k \in TaskIds : ENABLED GetStatus(k))

\* A submit was answered, its agent still queued, while the run of an
\* earlier task was under way.
C16_Witness ==
    /\ ev.st = "started"
    /\ ev.status = 200
    /\ agentObjs[agents[ev.key]].phase = "queued"
    /\ \E a \in DOMAIN agentObjs : agentObjs[a].phase = "running"

\* C17: a GetStatus of a task id that no Submit has returned fails with
\* NotFound (404), and no GetStatus changes the session registry or the task
\* registry.
C17_GetStatusIsReadOnly ==
    [][ev'.tool = "get_agent_task_status"
          => /\ UNCHANGED <<registryVars, taskVars, handles>>
             /\ (\A a \in DOMAIN taskOf : taskOf[a] # ev'.key) => ev'.status = 404]_vars

\* A poll of a task id that was never returned, while other tasks and a
\* session are registered, was answered.
C17_Witness ==
    /\ ev.tool = "get_agent_task_status"
    /\ ev.status = 404
    /\ \A a \in DOMAIN taskOf : taskOf[a] # ev.key
    /\ DOMAIN agents # {}
    /\ DOMAIN browser_sessions # {}

\* C18: a dispatch of a tool name outside the routing table fails with
\* UnknownTool (400) and changes nothing: the session registry, the task
\* registry and the set of browser handles constructed are as before.
C18_UnknownToolChangesNothing ==
    [][(Route(ev'.tool) = "" /\ ev'.status # 0)
          => /\ ev'.status = 400
             /\ UNCHANGED <<registryVars, taskVars, handles>>]_vars

\* An unknown tool was answered while "default" was not registered and a
\* task was.
C18_Witness ==
    /\ ev.tool = "no_such_tool"
    /\ ev.status = 400
    /\ ~Registered(Default)
    /\ DOMAIN agents # {}

\* C19: a dispatch whose parameters lack a required field fails with
\* InvalidParameters, a 400-class error, before any handler runs.
C19_MissingFieldIsInvalidInput ==
    (routed # NotDispatched /\ routed.kind = "InvalidParameters")
        => (routed.status = 400 /\ routed.handler = "")

\* C20: a dispatch of create_browser_session with a parameter field the
\* request model does not declare is rejected: create_session is not reached.
C20_CreateRejectsUnknownField ==
    (/\ routed # NotDispatched
     /\ tool_name = "create_browser_session"
     /\ "unknown_field" \in parameters)
        => (routed.handler = "" /\ routed.status # 0)

\* C21: whatever a handler or one of its collaborators raises, what leaves
\* mcp_endpoint with a failure is an HTTPException (the error envelope),
\* never another exception.
C21_DispatchEnvelopesEveryFault ==
    ev.status \notin {0, 200} => ev.exc.http

\* select_dropdown_option raised its plain exception for a missing element
\* and mcp_endpoint answered with the envelope.
C21_Witness ==
    /\ ev.tool = "select_dropdown_option"
    /\ ~ev.element
    /\ ev.exc = Http(500)
    /\ ev.status = 500

\* C22: a listing that is answered holds every session id registered at
\* the answer exactly once, and a session whose page query raised is in the
\* listing with its error.
C22_ListingIsTheRegistry ==
    [][/\ (listing'.pc = "done" /\ listing.pc # "done")
            => /\ ListedIds(listing'.out) = DOMAIN browser_sessions'
               /\ Len(listing'.out) = Cardinality(DOMAIN browser_sessions')
       /\ (listing.pc = "page" /\ faults' = faults + 1 /\ listing' # listing)
            => \E i \in DOMAIN listing'.out :
                  listing'.out[i] = ListEntry(listing.cur, TRUE)]_vars

\* The frames that would yield a selection, and the first of them.
Selectable == {f \in DOMAIN frames : ActSucceeds(frames[f])}
FirstSelectable == CHOOSE f \in Selectable : \A g \in Selectable : f <= g

\* C23: the selection is performed in the first frame, in enumeration
\* order, that yields one; the frames probed are those up to it, in order,
\* none after it; at most one frame is acted on per call.
C23_FirstSuccessStopsTheScan ==
    /\ Len(scan.acted) <= 1
    /\ scan.result = "selected"
          => /\ scan.acted = <<FirstSelectable>>
             /\ scan.probed = [k \in 1..FirstSelectable |-> k]

\* A selection in the second frame of three, the third yielding one too.
C23_Witness ==
    /\ scan.result = "selected"
    /\ Len(frames) = 3
    /\ scan.acted = <<2>>
    /\ ActSucceeds(frames[3])

\* C24: a frame that yields no selection (element absent, unsupported
\* element, probe error, failed native select, ARIA menu without the item)
\* never ends the scan: every frame before the one being visited was probed,
\* and the call reports a selection whenever some frame yields one.
C24_FrameFailureNeverAborts ==
    /\ scan.pc \in {"probe", "act"}
          => \A f \in 1..(scan.i - 1) : \E k \in DOMAIN scan.probed : scan.probed[k] = f
    /\ (scan.pc = "done" /\ element /\ Selectable # {})
          => /\ scan.result = "selected"
             /\ \A f \in 1..(FirstSelectable - 1) :
                   \E k \in DOMAIN scan.probed : scan.probed[k] = f

\* A selection in the third frame after a probe error and a failed native
\* select.
C24_Witness ==
    /\ scan.result = "selected"
    /\ frames = <<"probe_error", "select_fail", "aria_ok">>
    /\ scan.acted = <<3>>

\* C25: when no frame yields a selection the call returns normally with
\* "Could not select option ... in any frame", every frame having been probed
\* exactly once; it raises only when the element index is absent.
C25_ExhaustedScanReturnsNormally ==
    /\ (scan.pc = "done" /\ element /\ Selectable = {})
          => /\ scan.result = "none"
             /\ ev.status = 200
             /\ scan.probed = [k \in 1..Len(frames) |-> k]
    /\ scan.result = "raised" => ~element

\* Three frames, none yielding a selection, each for another reason.
C25_Witness ==
    /\ scan.result = "none"
    /\ frames = <<"aria_nomatch", "absent", "select_fail">>
    /\ scan.probed = <<1, 2, 3>>

\* C26: a call whose element index is absent fails with a NotFound-kind
\* error (status 404) before any frame is probed or acted on.
C26_AbsentElementIsNotFound ==
    (scan.pc = "done" /\ ~element)
        => /\ ev.status = 404
           /\ scan.probed = << >>
           /\ scan.acted = << >>

\* s with one leading old removed.
StripPrefix(s, old) == IF StartsWith(s, old) THEN SubSeq(s, Len(old) + 1, Len(s)) ELSE s

\* The site of a website: what is left without its scheme, a leading "www."
\* and its path.
SiteOf(w) == SplitFirst(StripPrefix(StripPrefix(StripPrefix(w, Https), HttpScheme), Www))

\* The i-th Generate is for the session, site and email of the request r.
SameTriple(i, r) ==
    /\ issued[i].sid = r.sid
    /\ issued[i].email = r.email
    /\ SiteOf(issued[i].website) = SiteOf(r.website)

\* C27: a Retrieve(s, w2, e) after Generate(s, w1, e), w1 and w2 differing
\* only by scheme, a leading "www." and a path, with no later Generate for
\* that session, site and email, returns the password that Generate returned.
C27_RoundTripUnderNormalization ==
    [][req'.tool = "retrieve_account_credentials"
         => \A i \in DOMAIN issued :
              (SameTriple(i, req') /\ \A j \in DOMAIN issued : j > i => ~SameTriple(j, req'))
                 => resp'.status = 200 /\ resp'.password = issued[i].password]_vars

\* The i-th Generate is the last one for its normalized triple.
LastForItsKey(i) ==
    \A j \in DOMAIN issued :
        j > i => AccountKey(issued[j].sid, issued[j].website, issued[j].email)
                   # AccountKey(issued[i].sid, issued[i].website, issued[i].email)

\* C28: a Generate that reports success leaves accounts.json equal to the
\* vault in memory, new record included, so that the vault after a restart
\* still answers every triple with the password last generated for it.
C28_WriteThroughDurability ==
    /\ [][(issued' # issued /\ resp'.status = 200)
            => accounts_file' = Saved(account_storage')]_vars
    /\ [](\A i \in DOMAIN issued :
            LastForItsKey(i)
              => LET key == AccountKey(issued[i].sid, issued[i].website, issued[i].email)
                 IN key \in DOMAIN account_storage
                      /\ account_storage[key] = issued[i].password)

\* C29: a Retrieve of a triple that, once normalized, no Generate was for
\* fails with NotFound (404); no Retrieve changes the vault or accounts.json.
C29_RetrieveUnknownIsNotFound ==
    [][req'.tool = "retrieve_account_credentials"
         => /\ (\A i \in DOMAIN issued :
                  AccountKey(issued[i].sid, issued[i].website, issued[i].email)
                    # AccountKey(req'.sid, req'.website, req'.email))
                 => resp'.status = 404
            /\ account_storage' = account_storage
            /\ accounts_file' = accounts_file]_vars

\* A 404 for a site of a session and email that hold a record for another
\* site.
C29_Witness ==
    /\ req.tool = "retrieve_account_credentials"
    /\ resp.status = 404
    /\ \E i \in DOMAIN issued :
          /\ issued[i].sid = req.sid
          /\ issued[i].email = req.email
          /\ Normalize(issued[i].website) # Normalize(req.website)
    /\ account_storage # << >>
    /\ accounts_file = Saved(account_storage)

\* C30: a Retrieve returns the password of the most recent Generate whose
\* normalized triple is the request's, never one an earlier Generate for it
\* returned; the vault holds one record for each normalized triple generated.
C30_LastWriteWins ==
    /\ [][req'.tool = "retrieve_account_credentials"
            => \A i \in DOMAIN issued :
                 AccountKey(issued[i].sid, issued[i].website, issued[i].email)
                     = AccountKey(req'.sid, req'.website, req'.email)
                   => /\ resp'.status = 200
                      /\ LastForItsKey(i) <=> resp'.password = issued[i].password]_vars
    /\ [](DOMAIN account_storage =
             {AccountKey(issued[i].sid, issued[i].website, issued[i].email) :
                 i \in DOMAIN issued})

\* The second password generated for a triple, under another spelling of
\* the website, is the one retrieved.
C30_Witness ==
    /\ req.tool = "retrieve_account_credentials"
    /\ resp.status = 200
    /\ resp.password = 2
    /\ Len(issued) = 2
    /\ issued[1].website # issued[2].website
    /\ ~LastForItsKey(1)

\* C31: a start with accounts.json missing or unparsable completes, with an
\* empty vault; against an empty vault a Retrieve answers NotFound and a
\* Generate answers its password and stores just that record.
C31_StartsEmptyWithoutSnapshot ==
    /\ [][(req'.tool \in {"restart", "startup_failed"}
              /\ ~(accounts_file.exists /\ accounts_file.valid))
            => (req'.tool = "restart" /\ account_storage' = << >>)]_vars
    /\ [][(account_storage = << >> /\ req'.tool = "retrieve_account_credentials")
            => resp'.status = 404]_vars
    /\ [][(account_storage = << >> /\ req'.tool = "generate_account_credentials")
            => /\ resp'.status = 200
               /\ account_storage' =
                    (AccountKey(req'.sid, req'.website, req'.email) :> resp'.password)]_vars

\* After a start without a usable accounts.json, a second Generate, for
\* another triple, was stored alone and retrieved.
C31_Witness ==
    /\ req.tool = "retrieve_account_credentials"
    /\ resp.status = 200
    /\ Len(issued) = 2
    /\ resp.password = issued[2].password
    /\ DOMAIN account_storage =
          {AccountKey(issued[2].sid, issued[2].website, issued[2].email)}
    /\ AccountKey(issued[1].sid, issued[1].website, issued[1].email)
          # AccountKey(issued[2].sid, issued[2].website, issued[2].email)
    /\ accounts_file = Saved(account_storage)

\* The step answers a credential request.
CredentialStep ==
    ev'.tool \in {"generate_account_credentials", "retrieve_account_credentials"}

\* C32: only Generate changes the vault; a credential request leaves the
\* session registry, the task registry and the browser handles as they are,
\* whether or not its session is registered; a record stays retrievable
\* whatever becomes of the session it is stored under.
C32_VaultIndependentOfSessions ==
    [][/\ issued' = issued => (account_storage' = account_storage
                                /\ accounts_file' = accounts_file)
       /\ CredentialStep => UNCHANGED <<registryVars, taskVars, handles>>
       /\ (/\ ev'.tool = "retrieve_account_credentials"
           /\ \E i \in DOMAIN issued :
                 AccountKey(issued[i].sid, issued[i].website, issued[i].email)
                    = AccountKey(req'.sid, req'.website, req'.email))
            => resp'.status = 200]_vars

\* A record generated under a session was retrieved after that session was
\* closed, "default" never having been registered.
C32_Witness ==
    /\ ev.tool = "retrieve_account_credentials"
    /\ ev.status = 200
    /\ req.sid = Named
    /\ WasClosed(Named)
    /\ ~Registered(Named)
    /\ \A h \in DOMAIN handles : handles[h].sid = Named

\* The step is one of a retry task's background task: its run starts or
\* ends, or its agent is closed by the finally block.
RetryTaskStep ==
    /\ ev' = NoEvent
    /\ inflight' = inflight
    /\ \E a \in DOMAIN agentObjs :
          agentObjs[a].kind = "adhoc" /\ agentObjs'[a] # agentObjs[a]

\* C33: the Submit of a retry task and every step of its execution leave
\* the session registry and every browser handle as they are; the Submit is
\* accepted whether or not its session_id is registered.
C33_RetryLeavesSessionsAlone ==
    [][/\ (ev'.tool = "retry_browse_agent" \/ RetryTaskStep)
            => UNCHANGED <<registryVars, handles>>
       /\ (ev'.tool = "retry_browse_agent" /\ apiKey) => ev'.status = 200]_vars

\* A retry task submitted against a registered session has run and had its
\* agent closed: the session is registered still, its handle live.
C33_Witness ==
    \E a \in DOMAIN agentObjs :
        /\ agentObjs[a].kind = "adhoc"
        /\ agentObjs[a].phase = "done"
        /\ agentObjs[a].sid = RetryNamed
        /\ Registered(RetryNamed)
        /\ handles[browser_sessions[RetryNamed]].st = "live"

\* C34: a list_sessions call that was suspended on a page query ends with
\* a successful listing, whatever other requests did to the registry while
\* it was suspended.
C34_ListingSurvivesMutation ==
    [][(listing.pc = "page" /\ listing'.pc # "page")
         => (listing'.pc = "done" /\ ev'.status = 200)]_vars

\* The step resumes the suspended request r, which was creating "default"
\* while another request was doing the same: that one is suspended still, or
\* it has registered its session since.
RacedForDefault(r) ==
    /\ r.sid = Default
    /\ r.pc = "start"
    /\ ResumedInStep(r)
    /\ \/ Registered(Default)
       \/ \E q \in BagToSet(inflight) : q # r /\ q.sid = Default /\ q.pc = "start"

\* C35: of two requests in flight on an unregistered "default", each, when
\* no collaborator raises, obtains a live session that is registered under
\* "default" and is not answered with a failure: a create answers with
\* success, a page tool goes on to the engine with its session and answers
\* with success for it.
C35_ConcurrentDefaultBothSucceed ==
    [][\A r \in BagToSet(inflight) :
         /\ (RacedForDefault(r) /\ faults' = faults)
               => /\ handles'[r.h].st = "live"
                  /\ browser_sessions'[Default] = r.h
                  /\ IF r.tool \in PageTools
                       THEN ev'.status = 0 /\ AtPage(r.tool, r.sid, r.h, FALSE) \in NewlySuspended
                       ELSE ev'.status = 200 /\ ev'.handle = r.h
         /\ (/\ r.tool \in PageTools
             /\ r.pc = "page"
             /\ ~r.found
             /\ ResumedInStep(r)
             /\ faults' = faults
             /\ ev'.element)
               => (ev'.status = 200 /\ ev'.handle = r.h)]_vars

\* Two page tools on "default" were answered with success, each having
\* started a browser of its own, with no close between them.
C35_Witness ==
    /\ inflight = EmptyBag
    /\ faults = 0
    /\ ev.tool \in PageTools
    /\ ev.sid = Default
    /\ ev.status = 200
    /\ ~ev.found
    /\ accepted = 2
    /\ Cardinality({h \in DOMAIN handles :
                      handles[h].sid = Default /\ handles[h].st = "live"}) = 2

\* C36: a step of close_session for the id s neither calls close() on nor
\* removes from the task registry an agent task that was not submitted with
\* session_id s, whatever string s is.
C36_CloseTouchesOnlyItsTasks ==
    [][\A r \in BagToSet(inflight) :
         (r.tool = "close_browser_session" /\ ResumedInStep(r))
            => \A k \in DOMAIN agents :
                 agentObjs[agents[k]].sid # r.sid
                   => /\ k \in DOMAIN agents'
                      /\ agentObjs'[agents[k]].closes = agentObjs[agents[k]].closes]_vars

\* The step answers a request that the handler's test of the input, or of
\* the API key, refuses.
RejectedAnswer ==
    /\ ev'.status # 0
    /\ ev'.tool \in InputTools \/ (ev'.tool = "browse_agent" /\ ~apiKey)

\* C37: a request refused for its input (scroll direction, tab index) or
\* for the missing API key fails and leaves the session registry, the task
\* registry and the browser handles as they were at its arrival, also when
\* its session_id is "default" and not registered: no step of such a
\* request changes them.
C37_RejectedDispatchChangesNothing ==
    [][(\/ RejectedAnswer
        \/ \E r \in BagToSet(inflight) : r.tool \in InputTools /\ ResumedInStep(r))
         => /\ ev'.status # 200
            /\ UNCHANGED <<registryVars, taskVars>>
            /\ \A h \in DOMAIN handles' : handles'[h].st # "live"
                  \/ (h \in DOMAIN handles /\ handles[h].st = "live")]_vars

\* The step resumes the close_session r from `await session.stop()` while
\* another close_session of the same id is suspended there too, or has
\* removed the id since.
ConcurrentClose(r) ==
    /\ r.tool = "close_browser_session"
    /\ r.pc = "stop"
    /\ ResumedInStep(r)
    /\ CopiesIn(r, inflight) >= 2 \/ ~Registered(r.sid)

\* C38: of two concurrent closes of a registered id, when no collaborator
\* raises, the one that finds the id registered reports success and removes
\* it, the other reports NotFound (404); after either the id is not
\* registered and the browser handle is stopped.
C38_ConcurrentCloseOneSucceeds ==
    [][\A r \in BagToSet(inflight) :
         (ConcurrentClose(r) /\ faults' = faults)
            => /\ ev'.status = IF Registered(r.sid) THEN 200 ELSE 404
               /\ ~Registered(r.sid)'
               /\ handles'[r.h].st = "stopped"]_vars

\* C39: a create without session_id, when no collaborator raises, succeeds
\* under an id that no session is registered under, and registers its own
\* session there: two such creates, also within one clock millisecond,
\* register two distinct sessions.
C39_GeneratedIdIsFresh ==
    [][(/\ ev'.tool = "create_browser_session"
        /\ ev'.status # 0
        /\ ev'.sid[1] = "session_"
        /\ faults' = faults)
         => /\ ev'.status = 200
            /\ ~Registered(ev'.sid)
            /\ browser_sessions'[ev'.sid] = ev'.handle
            /\ Cardinality(DOMAIN browser_sessions')
                  = Cardinality(DOMAIN browser_sessions) + 1]_vars

\* C40: normalizing a normalized website changes nothing, and a Retrieve
\* under the website a Generate reported, with no Generate for that key
\* since, returns the password that Generate returned.
C40_NormalizationIsIdempotent ==
    /\ [](\A w \in Websites \cup StackedWebsites :
            Normalize(Normalize(w)) = Normalize(w))
    /\ [][req'.tool = "retrieve_account_credentials"
            => \A i \in DOMAIN issued :
                 (/\ issued[i].sid = req'.sid
                  /\ issued[i].email = req'.email
                  /\ req'.website = Normalize(issued[i].website)
                  /\ LastForItsKey(i))
                   => (resp'.status = 200 /\ resp'.password = issued[i].password)]_vars
====
